---- MODULE Spec2Model ----
(***************************************************************************)
(* Model of pyRfactor2SharedMemory: the shared-memory regions (RF2MMap),   *)
(* the record set (MMapDataSet), the synchronisation engine (SyncData) and *)
(* its facade (RF2SM) of rF2MMap.py, and the older engine SimInfoSync of   *)
(* sim_info_sync.py.  The simulator (producer) is the environment: it      *)
(* overwrites the mapped memory at any time.                               *)
(***************************************************************************)
EXTENDS Integers, Sequences, FiniteSets, TLC

(***************************************************************************)
(* Bounds of the model.                                                    *)
(***************************************************************************)
\* number of vehicle slots of a mapped array (128 in the source)
MAX_VEHICLES == 2
\* the producer's version stamps run from 0 to MaxVersion
MaxVersion == 2
\* update threads left running without a reference that are counted
MaxOrphans == 2
\* dot-separated parts of a version string that is drawn
MaxParts == 5
\* bytes of Rf2Ext.mVersion
MaxVersionLen == 12
\* iterations of SimInfoAPI's loop between two checks of the data version (70)
CheckTicks == 2

(***************************************************************************)
(* Program constants.                                                      *)
(***************************************************************************)
INVALID_INDEX == -1
\* seconds without a new scoring version before SyncData freezes
FreezeWindow == 2
\* reset_counter value at which the loop pauses, and its cap
PauseTries == 5
CounterCap == 6
\* poll delays in milliseconds: 0.5 s while frozen, 0.01 s while active
IdleDelay == 500
ActiveDelay == 10

Slots == 0 .. (MAX_VEHICLES - 1)
\* mID values: those of the initial index dictionary plus one beyond it
MIDs == 0 .. MAX_VEHICLES
Versions == 0 .. MaxVersion
Regions == {"scor", "tele", "ext", "ffb"}
None == [tag |-> "None"]
Live == [tag |-> "Live"]

\* Python sequence indexing: a negative index counts from the end
PyIndex(i) == IF i < 0 THEN i + MAX_VEHICLES ELSE i

ScorSlot == [mID : MIDs, mIsPlayer : BOOLEAN]
TeleSlot == [mID : MIDs]
ScorVehicles == [Slots -> ScorSlot]
TeleVehicles == [Slots -> TeleSlot]

VARIABLES
    scorMem,      \* the scoring region's memory, written by the simulator
    teleMem,      \* the telemetry region's memory, written by the simulator
    rgn,          \* the four RF2MMap objects of the MMapDataSet
    updating,     \* SyncData._updating
    event,        \* SyncData._event is set
    thread,       \* SyncData._update_thread: "none", "alive" or "dead"
    tele_idx_dict,\* SyncData._tele_idx_dict: mID -> telemetry index (-1: no key)
    paused,       \* SyncData.paused
    override_player_index,
    player_scor_index,
    player_scor,  \* SyncData.player_scor (None before the first start)
    player_tele,
    loop,         \* the locals and the position of SyncData.__update
    age,          \* whole seconds since loop.last_update_time, capped
    access_mode,  \* RF2SM._access_mode
    cpc,          \* position of the caller thread in RF2SM.start / stop
    ret,          \* how the caller's last call ended: "none" (none yet, or running),
                  \* "done", "warned" (logged a warning, did nothing) or the exception
    parked,       \* a second caller thread of RF2SM, not scheduled at this instant:
                  \* its position and how its last call ended
    prev,         \* history: player_scor_index, the player's mID and the retry counter
                  \* before the last __sync_player_data
    scan,         \* the scoring-index scans applied to one array (SpecScan)
    api,          \* the SimInfoAPI object of sharedMemoryAPI.py and its Rf2Ext fields
    sis,          \* the fields of the SimInfoSync object
    sis_rgn,      \* the four rF2MMap objects of SimInfoSync
    sis_thread,   \* SimInfoSync._thread: "none" (no attribute), "alive" or "dead"
    sis_loop,     \* the locals and the position of SimInfoSync.__update
    sis_age,      \* whole seconds since check_timer_start, capped
    sis_caller,   \* the caller thread in SimInfoSync.start / stop / restart:
                  \* pc: position, call: the call made, ret: how the last call
                  \* ended, was_stopped: history, _stopped when the call was made
    sis_parked,   \* a second caller thread, not scheduled at this instant
    sis_orphans   \* live update threads that _thread no longer refers to

engineVars == <<updating, event, thread, tele_idx_dict, paused,
                override_player_index, player_scor_index, player_scor, player_tele>>
rf2Vars == <<rgn, engineVars, loop, age, access_mode, cpc, ret, prev, parked>>
sisVars == <<sis, sis_rgn, sis_thread, sis_loop, sis_age, sis_caller,
             sis_parked, sis_orphans>>
vars == <<scorMem, teleMem, rf2Vars, scan, api, sisVars>>

(***************************************************************************)
(* RF2MMap: one mapped region.                                             *)
(***************************************************************************)
ExtMem == [b |-> 0, e |-> 0]

\* the bytes of region r at this instant
Mem(r) == IF r = "scor" THEN scorMem ELSE IF r = "tele" THEN teleMem ELSE ExtMem

\* RF2MMap.__init__
NewRegion == [inst |-> "none", mode |-> 0, sharing |-> FALSE, out |-> None]

\* data read from the mapping whatever the region holds
DataFromMapping(r) == Mem(r)

\* RF2MMap.data: a copy, or the mapping itself while the buffer is shared
Data(r) == IF rgn[r].out = Live THEN Mem(r) ELSE rgn[r].out

\* from_buffer / from_buffer_copy of the mmap instance: the exception raised
MapError(R) ==
    IF R.inst = "open" THEN "none"
    ELSE IF R.inst = "closed" THEN "ValueError" ELSE "TypeError"

\* the copy assigned without the version check
BufferCopyUnchecked(R, m, skip_check) == [R EXCEPT !.out = m]

\* RF2MMap.__buffer_copy: R the region object, m its memory
BufferCopy(R, m, skip_check) ==
    IF m.e = m.b \/ skip_check THEN [R EXCEPT !.out = m] ELSE R

\* a share that never binds the mapping
BufferShareNever(R) == R

\* RF2MMap.__buffer_share
BufferShare(R) ==
    IF ~R.sharing THEN [R EXCEPT !.sharing = TRUE, !.out = Live] ELSE R

\* RF2MMap.update, on a state s = [g: the regions, err: exception raised so far]
RegionUpdate(s, r) ==
    LET R == s.g[r] IN
    IF s.err # "none" THEN s
    ELSE IF R.mode # 0
    THEN IF R.sharing THEN s
         ELSE IF MapError(R) # "none" THEN [s EXCEPT !.err = MapError(R)]
         ELSE [s EXCEPT !.g[r] = BufferShare(R)]
    ELSE IF MapError(R) # "none" THEN [s EXCEPT !.err = MapError(R)]
         ELSE [s EXCEPT !.g[r] = BufferCopy(R, Mem(r), FALSE)]

\* RF2MMap.create; the platform mapping of region failAt cannot be opened
RegionCreate(s, r, mode, failAt) ==
    IF s.err # "none" THEN s
    ELSE IF r = failAt
    THEN [g |-> [s.g EXCEPT ![r].mode = mode], err |-> "OSError"]
    ELSE [s EXCEPT !.g[r] = BufferCopy([@ EXCEPT !.inst = "open", !.mode = mode],
                                        Mem(r), TRUE)]

\* a close that leaves the sharing flag set
RegionCloseKeepsSharing(s, r, held) ==
    LET R == s.g[r] IN
    IF s.err # "none" THEN s
    ELSE IF MapError(R) # "none" THEN [s EXCEPT !.err = MapError(R)]
    ELSE [s EXCEPT !.g[r] =
            [BufferCopy(R, Mem(r), TRUE) EXCEPT
                !.inst = IF R.sharing /\ r \in held THEN "open" ELSE "closed"]]

\* a close that lets the BufferError of mmap.close() reach its caller
RegionClosePropagates(s, r, held) ==
    LET R == s.g[r] IN
    IF s.err # "none" THEN s
    ELSE IF MapError(R) # "none" THEN [s EXCEPT !.err = MapError(R)]
    ELSE IF R.sharing /\ r \in held
    THEN [g |-> [s.g EXCEPT ![r] = [BufferCopy(R, Mem(r), TRUE) EXCEPT !.sharing = FALSE]],
          err |-> "BufferError"]
    ELSE [s EXCEPT !.g[r] =
            [BufferCopy(R, Mem(r), TRUE) EXCEPT !.sharing = FALSE, !.inst = "closed"]]

\* RF2MMap.close; held: another object still holds the shared buffer, so that
\* mmap.close() raises BufferError, which close() catches
RegionClose(s, r, held) ==
    LET R == s.g[r] IN
    IF s.err # "none" THEN s
    ELSE IF MapError(R) # "none" THEN [s EXCEPT !.err = MapError(R)]
    ELSE [s EXCEPT !.g[r] =
            [BufferCopy(R, Mem(r), TRUE) EXCEPT
                !.sharing = FALSE,
                !.inst = IF R.sharing /\ r \in held THEN "open" ELSE "closed"]]

(***************************************************************************)
(* MMapDataSet: the four regions, always handled in the same order.        *)
(***************************************************************************)
\* MMapDataSet.create_mmap
CreateMMap(g, mode, failAt) ==
    RegionCreate(RegionCreate(RegionCreate(RegionCreate(
        [g |-> g, err |-> "none"],
        "scor", mode, failAt), "tele", mode, failAt), "ext", 1, failAt), "ffb", 1, failAt)

\* MMapDataSet.close_mmap
CloseMMap(g, held) ==
    RegionClose(RegionClose(RegionClose(RegionClose(
        [g |-> g, err |-> "none"], "scor", held), "tele", held), "ext", held), "ffb", held)

\* MMapDataSet.update_mmap
UpdateMMap(g) ==
    RegionUpdate(RegionUpdate(RegionUpdate(RegionUpdate(
        [g |-> g, err |-> "none"], "scor"), "tele"), "ext"), "ffb")

(***************************************************************************)
(* SyncData: identity resolution.                                          *)
(***************************************************************************)
\* SyncData.__init__: _tele_idx_dict = {i: i for i in range(128)}
InitTeleIdxDict == [m \in MIDs |-> IF m < MAX_VEHICLES THEN m ELSE INVALID_INDEX]

\* SyncData.copy_player_scor / copy_player_tele: a copy of one vehicle slot
CopyPlayerScor(scor, index) == scor.veh[PyIndex(index)]
CopyPlayerTele(tele, index) == tele.veh[PyIndex(index)]

\* SyncData.__local_scor_index: the loop over range(MAX_VEHICLES), from slot i
RECURSIVE ScanLocalScor(_, _)
ScanLocalScor(veh, i) ==
    IF i >= MAX_VEHICLES THEN INVALID_INDEX
    ELSE IF veh[i].mIsPlayer THEN i
    ELSE ScanLocalScor(veh, i + 1)

LocalScorIndex(scor) == ScanLocalScor(scor.veh, 0)

\* SyncData.__update_tele_index_dict: the loop over range(num_vehicles), from i
RECURSIVE FillTeleIdxDict(_, _, _, _)
FillTeleIdxDict(d, tele, i, num_vehicles) ==
    IF i >= num_vehicles THEN d
    ELSE FillTeleIdxDict([d EXCEPT ![tele.veh[i].mID] = i], tele, i + 1, num_vehicles)

\* a dictionary that is never refreshed from telemetry
KeepTeleIndexDict(d, tele) == d

UpdateTeleIndexDict(d, tele) == FillTeleIdxDict(d, tele, 0, tele.num)

\* SyncData.sync_tele_index: dict.get(mID of the scoring slot, INVALID_INDEX)
SyncTeleIndex(d, scor, scor_idx) == d[scor.veh[PyIndex(scor_idx)].mID]

\* SyncData.__sync_player_data on the snapshots scor and tele; the result holds
\* the return value and the new player_scor_index, player_scor, player_tele
\* a resolution that scans whatever the override says
SyncPlayerDataScanAlways(scor, tele, d, override, idx, ps, pt) ==
    LET scor_idx == LocalScorIndex(scor)
    IN  IF scor_idx = INVALID_INDEX
        THEN [synced |-> FALSE, idx |-> idx, ps |-> ps, pt |-> pt]
        ELSE [synced |-> TRUE, idx |-> scor_idx,
              ps |-> CopyPlayerScor(scor, scor_idx),
              pt |-> CopyPlayerTele(tele, SyncTeleIndex(d, scor, scor_idx))]

\* SyncData.__sync_player_data
SyncPlayerData(scor, tele, d, override, idx, ps, pt) ==
    LET scor_idx == LocalScorIndex(scor)
        new_idx  == IF override THEN idx ELSE scor_idx
    IN  IF ~override /\ scor_idx = INVALID_INDEX
        THEN [synced |-> FALSE, idx |-> idx, ps |-> ps, pt |-> pt]
        ELSE [synced |-> TRUE, idx |-> new_idx,
              ps |-> CopyPlayerScor(scor, new_idx),
              pt |-> CopyPlayerTele(tele, SyncTeleIndex(d, scor, new_idx))]

(***************************************************************************)
(* SimInfoSync: the slot resolution of sim_info_sync.py.                   *)
(***************************************************************************)
\* __find_local_scor_index: the slot at idx_last is tried first
FindLocalScorIndex(veh, idx_last) ==
    IF veh[PyIndex(idx_last)].mIsPlayer THEN idx_last
    ELSE ScanLocalScor(veh, 0)

RECURSIVE ScanLocalTele(_, _, _)
ScanLocalTele(veh, mid_scor, i) ==
    IF i = MAX_VEHICLES THEN INVALID_INDEX
    ELSE IF veh[i].mID = mid_scor THEN i
    ELSE ScanLocalTele(veh, mid_scor, i + 1)

\* __sync_local_tele_index: the slot at idx_scor is tried first
SyncLocalTeleIndex(veh, idx_scor, mid_scor) ==
    IF veh[PyIndex(idx_scor)].mID = mid_scor THEN idx_scor
    ELSE ScanLocalTele(veh, mid_scor, 0)

\* history: the index, the mID of the player copy and the retry counter before a
\* resolution
PlayerBefore ==
    [idx |-> player_scor_index,
     mID |-> IF player_scor = None THEN INVALID_INDEX ELSE player_scor.mID,
     counter |-> loop.reset_counter]

(***************************************************************************)
(* RF2SM / SyncData: start and stop, run by the caller thread.             *)
(***************************************************************************)
NoLoop == [pc |-> "none", freezed_version |-> 0, last_version_update |-> 0,
           data_freezed |-> TRUE, reset_counter |-> 0, update_delay |-> IdleDelay]
AgeCap == FreezeWindow + 1

\* RF2SM.setMode
SetMode(mode) ==
    /\ cpc = "idle"
    /\ access_mode' = mode
    /\ UNCHANGED <<scorMem, teleMem, rgn, engineVars, loop, age, cpc, ret, prev>>
    /\ UNCHANGED <<scan, api, parked, sisVars>>

\* RF2SM.setPlayerOverride
SetPlayerOverride(state) ==
    /\ cpc = "idle"
    /\ override_player_index' = state
    /\ UNCHANGED <<scorMem, teleMem, rgn, updating, event, thread, tele_idx_dict, paused,
                   player_scor_index, player_scor, player_tele, loop, age, access_mode,
                   cpc, ret, prev>>
    /\ UNCHANGED <<scan, api, parked, sisVars>>

\* a clamp without the upper limit
ClampIndexBelowOnly(index) == IF index > INVALID_INDEX THEN index ELSE INVALID_INDEX

\* RF2SM.setPlayerIndex
ClampIndex(index) ==
    LET lo == IF index > INVALID_INDEX THEN index ELSE INVALID_INDEX
    IN  IF lo < MAX_VEHICLES - 1 THEN lo ELSE MAX_VEHICLES - 1

SetPlayerIndex(index) ==
    /\ cpc = "idle"
    /\ player_scor_index' = ClampIndex(index)
    /\ UNCHANGED <<scorMem, teleMem, rgn, updating, event, thread, tele_idx_dict, paused,
                   override_player_index, player_scor, player_tele, loop, age, access_mode,
                   cpc, ret, prev>>
    /\ UNCHANGED <<scan, api, parked, sisVars>>

\* the caller enters RF2SM.start() or RF2SM.stop()
CallStart ==
    /\ cpc = "idle"
    /\ cpc' = "start"
    /\ ret' = "none"
    /\ UNCHANGED <<scorMem, teleMem, rgn, engineVars, loop, age, access_mode, prev>>
    /\ UNCHANGED <<scan, api, parked, sisVars>>

CallStop ==
    /\ cpc = "idle"
    /\ cpc' = "stop"
    /\ ret' = "none"
    /\ UNCHANGED <<scorMem, teleMem, rgn, engineVars, loop, age, access_mode, prev>>
    /\ UNCHANGED <<scan, api, parked, sisVars>>

\* a start() that does not test _updating
StartUnchecked ==
    /\ cpc = "start"
    /\ cpc' = "start_open"
    /\ updating' = TRUE
    /\ UNCHANGED <<scorMem, teleMem, rgn, event, thread, tele_idx_dict, paused,
                   override_player_index, player_scor_index, player_scor, player_tele,
                   loop, age, access_mode, ret, prev>>
    /\ UNCHANGED <<scan, api, parked, sisVars>>

\* SyncData.start: the test of _updating; already started, or _updating = True
StartCheck ==
    /\ cpc = "start"
    /\ IF updating
       THEN cpc' = "idle" /\ ret' = "warned" /\ UNCHANGED updating
       ELSE cpc' = "start_open" /\ updating' = TRUE /\ UNCHANGED ret
    /\ UNCHANGED <<scorMem, teleMem, rgn, event, thread, tele_idx_dict, paused,
                   override_player_index, player_scor_index, player_scor, player_tele,
                   loop, age, access_mode, prev>>
    /\ UNCHANGED <<scan, api, parked, sisVars>>

\* SyncData.start: dataset.create_mmap; an exception leaves start()
StartOpen(failAt) ==
    /\ cpc = "start_open"
    /\ LET s == CreateMMap(rgn, access_mode, failAt)
       IN  /\ rgn' = s.g
           /\ ret' = s.err
           /\ cpc' = IF s.err = "none" THEN "start_sync" ELSE "idle"
    /\ UNCHANGED <<scorMem, teleMem, engineVars, loop, age, access_mode, prev>>
    /\ UNCHANGED <<scan, api, parked, sisVars>>

\* a start() without the copy of the last slot when no player is found
StartSyncNoFallback ==
    /\ cpc = "start_sync"
    /\ LET d == UpdateTeleIndexDict(tele_idx_dict, Data("tele"))
           r == SyncPlayerData(Data("scor"), Data("tele"), d, override_player_index,
                               player_scor_index, player_scor, player_tele)
       IN  /\ tele_idx_dict' = d
           /\ player_scor_index' = r.idx
           /\ player_scor' = r.ps
           /\ player_tele' = r.pt
    /\ prev' = PlayerBefore
    /\ cpc' = "start_spawn"
    /\ UNCHANGED <<scorMem, teleMem, rgn, updating, event, thread, paused,
                   override_player_index, loop, age, access_mode, ret>>
    /\ UNCHANGED <<scan, api, parked, sisVars>>

\* SyncData.start: the index dictionary and the first player copy
StartSync ==
    /\ cpc = "start_sync"
    /\ LET d == UpdateTeleIndexDict(tele_idx_dict, Data("tele"))
           r == SyncPlayerData(Data("scor"), Data("tele"), d, override_player_index,
                               player_scor_index, player_scor, player_tele)
       IN  /\ tele_idx_dict' = d
           /\ player_scor_index' = r.idx
           /\ player_scor' = IF r.synced THEN r.ps
                             ELSE CopyPlayerScor(Data("scor"), INVALID_INDEX)
           /\ player_tele' = IF r.synced THEN r.pt
                             ELSE CopyPlayerTele(Data("tele"), INVALID_INDEX)
    /\ prev' = PlayerBefore
    /\ cpc' = "start_spawn"
    /\ UNCHANGED <<scorMem, teleMem, rgn, updating, event, thread, paused,
                   override_player_index, loop, age, access_mode, ret>>
    /\ UNCHANGED <<scan, api, parked, sisVars>>

\* SyncData.start: _event.clear() and the new thread
StartSpawn ==
    /\ cpc = "start_spawn"
    /\ event' = FALSE
    /\ thread' = "alive"
    /\ loop' = [NoLoop EXCEPT !.pc = "init"]
    /\ cpc' = "idle"
    /\ ret' = "done"
    /\ UNCHANGED <<scorMem, teleMem, rgn, updating, tele_idx_dict, paused,
                   override_player_index, player_scor_index, player_scor, player_tele,
                   age, access_mode, prev>>
    /\ UNCHANGED <<scan, api, parked, sisVars>>

\* SyncData.stop: the test of _updating; already stopped, or _event.set()
StopCheck ==
    /\ cpc = "stop"
    /\ IF updating
       THEN cpc' = "stop_flag" /\ event' = TRUE /\ UNCHANGED ret
       ELSE cpc' = "idle" /\ ret' = "warned" /\ UNCHANGED event
    /\ UNCHANGED <<scorMem, teleMem, rgn, updating, thread, tele_idx_dict, paused,
                   override_player_index, player_scor_index, player_scor, player_tele,
                   loop, age, access_mode, prev>>
    /\ UNCHANGED <<scan, api, parked, sisVars>>

\* SyncData.stop: _updating = False
StopFlag ==
    /\ cpc = "stop_flag"
    /\ updating' = FALSE
    /\ cpc' = "stop_join"
    /\ UNCHANGED <<scorMem, teleMem, rgn, event, thread, tele_idx_dict, paused,
                   override_player_index, player_scor_index, player_scor, player_tele,
                   loop, age, access_mode, ret, prev>>
    /\ UNCHANGED <<scan, api, parked, sisVars>>

\* a join that does not wait for the thread
JoinedAtOnce(t) == TRUE

\* Thread.join() returns once the thread has ended
Joined(t) == t = "dead"

\* SyncData.stop: _update_thread.join(); None has no join
StopJoin ==
    /\ cpc = "stop_join"
    /\ \/ /\ thread = "none"
          /\ ret' = "AttributeError"
          /\ cpc' = "idle"
       \/ /\ thread # "none"
          /\ Joined(thread)
          /\ cpc' = "stop_close"
          /\ UNCHANGED ret
    /\ UNCHANGED <<scorMem, teleMem, rgn, engineVars, loop, age, access_mode, prev>>
    /\ UNCHANGED <<scan, api, parked, sisVars>>

\* SyncData.stop: dataset.close_mmap
StopClose(held) ==
    /\ cpc = "stop_close"
    /\ LET s == CloseMMap(rgn, held)
       IN  /\ rgn' = s.g
           /\ ret' = IF s.err = "none" THEN "done" ELSE s.err
    /\ cpc' = "idle"
    /\ UNCHANGED <<scorMem, teleMem, engineVars, loop, age, access_mode, prev>>
    /\ UNCHANGED <<scan, api, parked, sisVars>>

(***************************************************************************)
(* SyncData.__update: the background loop, run by the update thread.       *)
(***************************************************************************)
\* the statements before the loop
LoopInit ==
    /\ loop.pc = "init"
    /\ paused' = FALSE
    /\ loop' = [NoLoop EXCEPT !.pc = "wait"]
    /\ age' = AgeCap
    /\ UNCHANGED <<scorMem, teleMem, rgn, updating, event, thread, tele_idx_dict,
                   override_player_index, player_scor_index, player_scor, player_tele,
                   access_mode, cpc, ret, prev>>
    /\ UNCHANGED <<scan, api, parked, sisVars>>

\* a wait that does not look at the stop signal
LoopWaitDeaf ==
    /\ loop.pc = "wait"
    /\ loop' = [loop EXCEPT !.pc = "refresh"] /\ UNCHANGED thread
    /\ UNCHANGED <<scorMem, teleMem, rgn, updating, event, tele_idx_dict, paused,
                   override_player_index, player_scor_index, player_scor, player_tele,
                   age, access_mode, cpc, ret, prev>>
    /\ UNCHANGED <<scan, api, parked, sisVars>>

\* while not self._event.wait(update_delay)
LoopWait ==
    /\ loop.pc = "wait"
    /\ IF event
       THEN loop' = [loop EXCEPT !.pc = "done"] /\ thread' = "dead"
       ELSE loop' = [loop EXCEPT !.pc = "refresh"] /\ UNCHANGED thread
    /\ UNCHANGED <<scorMem, teleMem, rgn, updating, event, tele_idx_dict, paused,
                   override_player_index, player_scor_index, player_scor, player_tele,
                   age, access_mode, cpc, ret, prev>>
    /\ UNCHANGED <<scan, api, parked, sisVars>>

\* a refresh that is followed by the resolution whether the data is frozen or not
LoopRefreshThenSync ==
    /\ loop.pc = "refresh"
    /\ LET s == UpdateMMap(rgn)
       IN  /\ rgn' = s.g
           /\ IF s.err = "none"
              THEN /\ tele_idx_dict' =
                        UpdateTeleIndexDict(tele_idx_dict,
                            IF s.g["tele"].out = Live THEN teleMem ELSE s.g["tele"].out)
                   /\ loop' = [loop EXCEPT !.pc = "sync"]
                   /\ UNCHANGED thread
              ELSE /\ loop' = [loop EXCEPT !.pc = "crashed"]
                   /\ thread' = "dead"
                   /\ UNCHANGED tele_idx_dict
    /\ UNCHANGED <<scorMem, teleMem, updating, event, paused, override_player_index,
                   player_scor_index, player_scor, player_tele, age, access_mode, cpc, ret, prev>>
    /\ UNCHANGED <<scan, api, parked, sisVars>>

\* dataset.update_mmap() and __update_tele_index_dict; an exception ends the thread
LoopRefresh ==
    /\ loop.pc = "refresh"
    /\ LET s == UpdateMMap(rgn)
       IN  /\ rgn' = s.g
           /\ IF s.err = "none"
              THEN /\ tele_idx_dict' =
                        UpdateTeleIndexDict(tele_idx_dict,
                            IF s.g["tele"].out = Live THEN teleMem ELSE s.g["tele"].out)
                   /\ loop' = [loop EXCEPT !.pc = IF loop.data_freezed THEN "freeze"
                                                  ELSE "sync"]
                   /\ UNCHANGED thread
              ELSE /\ loop' = [loop EXCEPT !.pc = "crashed"]
                   /\ thread' = "dead"
                   /\ UNCHANGED tele_idx_dict
    /\ UNCHANGED <<scorMem, teleMem, updating, event, paused, override_player_index,
                   player_scor_index, player_scor, player_tele, age, access_mode, cpc, ret, prev>>
    /\ UNCHANGED <<scan, api, parked, sisVars>>

\* a retry counter that a success does not reset
NextCounterSticky(counter, data_synced) ==
    IF ~data_synced /\ counter < CounterCap THEN counter + 1 ELSE counter

\* a retry counter that never counts a miss
NextCounterIdle(counter, data_synced) == IF data_synced THEN 0 ELSE counter

\* the retry counter after one resolution
NextCounter(counter, data_synced) ==
    IF ~data_synced /\ counter < CounterCap THEN counter + 1
    ELSE IF data_synced THEN 0 ELSE counter

\* if not data_freezed: __sync_player_data, the retry counter and the pause
LoopSync ==
    /\ loop.pc = "sync"
    /\ LET r == SyncPlayerData(Data("scor"), Data("tele"), tele_idx_dict,
                               override_player_index, player_scor_index,
                               player_scor, player_tele)
           c == NextCounter(loop.reset_counter, r.synced)
       IN  /\ player_scor_index' = r.idx
           /\ player_scor' = r.ps
           /\ player_tele' = r.pt
           /\ paused' = IF c = PauseTries THEN TRUE
                        ELSE IF r.synced THEN FALSE ELSE paused
           /\ loop' = [loop EXCEPT !.reset_counter = c, !.pc = "freeze"]
    /\ prev' = PlayerBefore
    /\ UNCHANGED <<scorMem, teleMem, rgn, updating, event, thread, tele_idx_dict,
                   override_player_index, age, access_mode, cpc, ret>>
    /\ UNCHANGED <<scan, api, parked, sisVars>>

\* a freeze that does not set paused
LoopFreezeSilent ==
    /\ loop.pc = "freeze"
    /\ LET ver     == Data("scor").e
           changed == loop.last_version_update # ver
           age1    == IF changed THEN 0 ELSE age
           freeze  == ~loop.data_freezed /\ age1 > FreezeWindow
           fv      == IF freeze THEN ver ELSE loop.freezed_version
           frozen1 == loop.data_freezed \/ freeze
           resume  == frozen1 /\ fv # ver
       IN  /\ age' = age1
           /\ loop' = [pc |-> "wait",
                       freezed_version |-> fv,
                       last_version_update |-> ver,
                       data_freezed |-> frozen1 /\ ~resume,
                       reset_counter |-> loop.reset_counter,
                       update_delay |-> IF resume THEN ActiveDelay
                                        ELSE IF freeze THEN IdleDelay
                                        ELSE loop.update_delay]
           /\ paused' = IF resume THEN FALSE ELSE paused
    /\ UNCHANGED <<scorMem, teleMem, rgn, updating, event, thread, tele_idx_dict,
                   override_player_index, player_scor_index, player_scor, player_tele,
                   access_mode, cpc, ret, prev>>
    /\ UNCHANGED <<scan, api, parked, sisVars>>

\* a freeze that leaves the poll delay as it was
LoopFreezeKeepsDelay ==
    /\ loop.pc = "freeze"
    /\ LET ver     == Data("scor").e
           changed == loop.last_version_update # ver
           age1    == IF changed THEN 0 ELSE age
           freeze  == ~loop.data_freezed /\ age1 > FreezeWindow
           fv      == IF freeze THEN ver ELSE loop.freezed_version
           frozen1 == loop.data_freezed \/ freeze
           resume  == frozen1 /\ fv # ver
       IN  /\ age' = age1
           /\ loop' = [pc |-> "wait",
                       freezed_version |-> fv,
                       last_version_update |-> ver,
                       data_freezed |-> frozen1 /\ ~resume,
                       reset_counter |-> loop.reset_counter,
                       update_delay |-> IF resume THEN ActiveDelay
                                        ELSE loop.update_delay]
           /\ paused' = IF resume THEN FALSE ELSE IF freeze THEN TRUE ELSE paused
    /\ UNCHANGED <<scorMem, teleMem, rgn, updating, event, thread, tele_idx_dict,
                   override_player_index, player_scor_index, player_scor, player_tele,
                   access_mode, cpc, ret, prev>>
    /\ UNCHANGED <<scan, api, parked, sisVars>>

\* the version tracking, the freeze after FreezeWindow seconds and the resume
LoopFreeze ==
    /\ loop.pc = "freeze"
    /\ LET ver     == Data("scor").e
           changed == loop.last_version_update # ver
           age1    == IF changed THEN 0 ELSE age
           freeze  == ~loop.data_freezed /\ age1 > FreezeWindow
           fv      == IF freeze THEN ver ELSE loop.freezed_version
           frozen1 == loop.data_freezed \/ freeze
           resume  == frozen1 /\ fv # ver
       IN  /\ age' = age1
           /\ loop' = [pc |-> "wait",
                       freezed_version |-> fv,
                       last_version_update |-> ver,
                       data_freezed |-> frozen1 /\ ~resume,
                       reset_counter |-> loop.reset_counter,
                       update_delay |-> IF resume THEN ActiveDelay
                                        ELSE IF freeze THEN IdleDelay
                                        ELSE loop.update_delay]
           /\ paused' = IF resume THEN FALSE ELSE IF freeze THEN TRUE ELSE paused
    /\ UNCHANGED <<scorMem, teleMem, rgn, updating, event, thread, tele_idx_dict,
                   override_player_index, player_scor_index, player_scor, player_tele,
                   access_mode, cpc, ret, prev>>
    /\ UNCHANGED <<scan, api, parked, sisVars>>

\* one second passes while the thread sleeps in _event.wait
Tick ==
    /\ loop.pc = "wait"
    /\ age < AgeCap
    /\ age' = age + 1
    /\ UNCHANGED <<scorMem, teleMem, rgn, engineVars, loop, access_mode, cpc, ret, prev>>
    /\ UNCHANGED <<scan, api, parked, sisVars>>

(***************************************************************************)
(* sim_info_sync.py, rF2MMap: one mapped region.                           *)
(***************************************************************************)
\* rF2MMap.data of SimInfoSync's region r
SisData(r) == IF sis_rgn[r].out = Live THEN Mem(r) ELSE sis_rgn[r].out

\* rF2MMap.copy_access: R the region object, m its memory
CopyAccess(R, m) ==
    IF m.e = m.b THEN [R EXCEPT !.out = m]
    ELSE IF R.out = None THEN [R EXCEPT !.out = m]
    ELSE R

\* rF2MMap.direct_access
DirectAccess(R) == [R EXCEPT !.out = Live, !.sharing = TRUE]

\* rF2MMap.update, on a state s = [g: the regions, err: exception raised so far]
SisRegionUpdate(s, r) ==
    LET R == s.g[r] IN
    IF s.err # "none" THEN s
    ELSE IF R.mode # 0
    THEN IF R.sharing THEN s
         ELSE IF MapError(R) # "none" THEN [s EXCEPT !.err = MapError(R)]
         ELSE [s EXCEPT !.g[r] = DirectAccess(R)]
    ELSE IF MapError(R) # "none" THEN [s EXCEPT !.err = MapError(R)]
         ELSE [s EXCEPT !.g[r] = CopyAccess(R, Mem(r))]

\* rF2MMap.create; the platform mapping of region failAt cannot be opened
SisRegionCreate(s, r, mode, failAt) ==
    IF s.err # "none" THEN s
    ELSE IF r = failAt
    THEN [g |-> [s.g EXCEPT ![r].mode = mode], err |-> "OSError"]
    ELSE [s EXCEPT !.g[r] = [@ EXCEPT !.inst = "open", !.mode = mode]]

\* rF2MMap.close: copy_access, then mmap.close(), whose BufferError (the
\* mapping is still exported to _mmap_data or to an object another holder
\* keeps) is caught
SisRegionClose(s, r, held) ==
    LET R == s.g[r]
        C == CopyAccess(R, Mem(r))
    IN  IF s.err # "none" THEN s
        ELSE IF MapError(R) # "none" THEN [s EXCEPT !.err = MapError(R)]
        ELSE [s EXCEPT !.g[r] =
                [C EXCEPT !.sharing = FALSE,
                          !.inst = IF C.out = Live \/ (R.sharing /\ r \in held)
                                   THEN "open" ELSE "closed"]]

\* SimInfoSync.create_mmap
SisCreateMMap(g, mode, failAt) ==
    SisRegionCreate(SisRegionCreate(SisRegionCreate(SisRegionCreate(
        [g |-> g, err |-> "none"],
        "scor", mode, failAt), "tele", mode, failAt), "ext", mode, failAt),
        "ffb", mode, failAt)

\* SimInfoSync.close_mmap
SisCloseMMap(g, held) ==
    SisRegionClose(SisRegionClose(SisRegionClose(SisRegionClose(
        [g |-> g, err |-> "none"], "scor", held), "tele", held), "ext", held),
        "ffb", held)

\* SimInfoSync.update_mmap
SisUpdateMMap(g) ==
    SisRegionUpdate(SisRegionUpdate(SisRegionUpdate(SisRegionUpdate(
        [g |-> g, err |-> "none"], "scor"), "tele"), "ext"), "ffb")

\* SimInfoSync.__sync_local_player_data on the engine fields e
SyncLocalPlayerData(scor, tele, e) ==
    LET idx_scor == FindLocalScorIndex(scor.veh, e.scor_index)
        e1  == IF e.override THEN e ELSE [e EXCEPT !.scor_index = idx_scor]
        e2  == [e1 EXCEPT !.scor_mid = scor.veh[PyIndex(e1.scor_index)].mID,
                          !.player_scor = scor.veh[PyIndex(e1.scor_index)]]
        idx_tele == SyncLocalTeleIndex(tele.veh, e2.scor_index, e2.scor_mid)
    IN  IF ~e.override /\ idx_scor = INVALID_INDEX
        THEN [synced |-> FALSE, e |-> e]
        ELSE IF idx_tele = INVALID_INDEX
        THEN [synced |-> TRUE, e |-> e2]
        ELSE [synced |-> TRUE,
              e |-> [e2 EXCEPT !.tele_index = idx_tele,
                               !.player_tele = tele.veh[PyIndex(idx_tele)]]]

(***************************************************************************)
(* SimInfoSync: start, stop and restart, run by the caller thread.         *)
(***************************************************************************)
\* seconds between two version checks of SimInfoSync.__update
SisWindow == 5
SisAgeCap == SisWindow + 1

\* the locals of SimInfoSync.__update before the loop
SisNoLoop == [pc |-> "none", last_version_update |-> 0, data_freezed |-> TRUE,
              reset_counter |-> 0, update_delay |-> IdleDelay]

\* the call ends: with an exception, or by returning to its caller (restart) or
\* to the program
SisRaise(exc) == [sis_caller EXCEPT !.pc = "idle", !.ret = exc]
SisReturn(to) ==
    IF sis_caller.call = "restart" THEN [sis_caller EXCEPT !.pc = to]
    ELSE [sis_caller EXCEPT !.pc = "idle", !.ret = "done"]

\* the caller calls start()
SisCallStart ==
    /\ sis_caller.pc = "idle"
    /\ sis_caller' = [pc |-> "start", call |-> "start", ret |-> "none",
                      was_stopped |-> sis.stopped]
    /\ UNCHANGED <<scorMem, teleMem, rf2Vars, scan, api, sis, sis_rgn, sis_thread,
                   sis_loop, sis_age>>
    /\ UNCHANGED <<sis_parked, sis_orphans>>

\* the caller calls stop()
SisCallStop ==
    /\ sis_caller.pc = "idle"
    /\ sis_caller' = [pc |-> "stop", call |-> "stop", ret |-> "none",
                      was_stopped |-> sis.stopped]
    /\ UNCHANGED <<scorMem, teleMem, rf2Vars, scan, api, sis, sis_rgn, sis_thread,
                   sis_loop, sis_age>>
    /\ UNCHANGED <<sis_parked, sis_orphans>>

\* the caller calls restart()
SisCallRestart ==
    /\ sis_caller.pc = "idle"
    /\ sis_caller' = [pc |-> "restart", call |-> "restart", ret |-> "none",
                      was_stopped |-> sis.stopped]
    /\ UNCHANGED <<scorMem, teleMem, rf2Vars, scan, api, sis, sis_rgn, sis_thread,
                   sis_loop, sis_age>>
    /\ UNCHANGED <<sis_parked, sis_orphans>>

\* SimInfoSync.start: if not self._stopped: return None
SisStartCheck ==
    /\ sis_caller.pc = "start"
    /\ sis_caller' = IF sis.stopped THEN [sis_caller EXCEPT !.pc = "start_open"]
                     ELSE SisReturn("restart_end")
    /\ UNCHANGED <<scorMem, teleMem, rf2Vars, scan, api, sis, sis_rgn, sis_thread,
                   sis_loop, sis_age>>
    /\ UNCHANGED <<sis_parked, sis_orphans>>

\* SimInfoSync.start: create_mmap
SisStartOpen(failAt) ==
    /\ sis_caller.pc = "start_open"
    /\ LET s == SisCreateMMap(sis_rgn, sis.access_mode, failAt)
       IN  /\ sis_rgn' = s.g
           /\ sis_caller' = IF s.err = "none"
                            THEN [sis_caller EXCEPT !.pc = "start_update"]
                            ELSE SisRaise(s.err)
    /\ UNCHANGED <<scorMem, teleMem, rf2Vars, scan, api, sis, sis_thread, sis_loop,
                   sis_age>>
    /\ UNCHANGED <<sis_parked, sis_orphans>>

\* SimInfoSync.start: update_mmap, copy_mmap_player
SisStartUpdate ==
    /\ sis_caller.pc = "start_update"
    /\ LET s == SisUpdateMMap(sis_rgn)
           D(r) == IF s.g[r].out = Live THEN Mem(r) ELSE s.g[r].out
       IN  /\ sis_rgn' = s.g
           /\ IF s.err = "none"
              THEN /\ sis' = [sis EXCEPT
                                !.player_scor = D("scor").veh[PyIndex(INVALID_INDEX)],
                                !.player_tele = D("tele").veh[PyIndex(INVALID_INDEX)]]
                   /\ sis_caller' = [sis_caller EXCEPT !.pc = "start_spawn"]
              ELSE /\ sis_caller' = SisRaise(s.err)
                   /\ UNCHANGED sis
    /\ UNCHANGED <<scorMem, teleMem, rf2Vars, scan, api, sis_thread, sis_loop, sis_age>>
    /\ UNCHANGED <<sis_parked, sis_orphans>>

\* SimInfoSync.start: the flags and the thread
SisStartSpawn ==
    /\ sis_caller.pc = "start_spawn"
    /\ sis' = [sis EXCEPT !.updating = TRUE, !.stopped = FALSE]
    /\ sis_thread' = "alive"
    /\ sis_orphans' = IF sis_thread = "alive" /\ sis_orphans < MaxOrphans
                      THEN sis_orphans + 1 ELSE sis_orphans
    /\ sis_loop' = [SisNoLoop EXCEPT !.pc = "test"]
    /\ sis_age' = SisAgeCap
    /\ sis_caller' = SisReturn("restart_end")
    /\ UNCHANGED <<scorMem, teleMem, rf2Vars, scan, api, sis_rgn>>
    /\ UNCHANGED sis_parked

\* SimInfoSync.stop: self._updating = False
SisStopFlag ==
    /\ sis_caller.pc = "stop"
    /\ sis' = [sis EXCEPT !.updating = FALSE]
    /\ sis_caller' = [sis_caller EXCEPT !.pc = "stop_join"]
    /\ UNCHANGED <<scorMem, teleMem, rf2Vars, scan, api, sis_rgn, sis_thread, sis_loop,
                   sis_age>>
    /\ UNCHANGED <<sis_parked, sis_orphans>>

\* SimInfoSync.stop: self._thread.join()
SisStopJoin ==
    /\ sis_caller.pc = "stop_join"
    /\ \/ /\ sis_thread = "none"
          /\ sis_caller' = SisRaise("AttributeError")
       \/ /\ sis_thread = "dead"
          /\ sis_caller' = [sis_caller EXCEPT !.pc = "stop_close"]
    /\ UNCHANGED <<scorMem, teleMem, rf2Vars, scan, api, sis, sis_rgn, sis_thread,
                   sis_loop, sis_age>>
    /\ UNCHANGED <<sis_parked, sis_orphans>>

\* SimInfoSync.stop: close_mmap
SisStopClose(held) ==
    /\ sis_caller.pc = "stop_close"
    /\ LET s == SisCloseMMap(sis_rgn, held)
       IN  /\ sis_rgn' = s.g
           /\ sis_caller' = IF s.err = "none" THEN SisReturn("start")
                            ELSE SisRaise(s.err)
    /\ UNCHANGED <<scorMem, teleMem, rf2Vars, scan, api, sis, sis_thread, sis_loop,
                   sis_age>>
    /\ UNCHANGED <<sis_parked, sis_orphans>>

\* SimInfoSync.restart: if self._restarting: return None
SisRestartCheck ==
    /\ sis_caller.pc = "restart"
    /\ sis_caller' = IF sis.restarting
                     THEN [sis_caller EXCEPT !.pc = "idle", !.ret = "done"]
                     ELSE [sis_caller EXCEPT !.pc = "restart_set"]
    /\ UNCHANGED <<scorMem, teleMem, rf2Vars, scan, api, sis, sis_rgn, sis_thread,
                   sis_loop, sis_age>>
    /\ UNCHANGED <<sis_parked, sis_orphans>>

\* SimInfoSync.restart: self._restarting = True
SisRestartSet ==
    /\ sis_caller.pc = "restart_set"
    /\ sis' = [sis EXCEPT !.restarting = TRUE]
    /\ sis_caller' = [sis_caller EXCEPT !.pc = "stop"]
    /\ UNCHANGED <<scorMem, teleMem, rf2Vars, scan, api, sis_rgn, sis_thread, sis_loop,
                   sis_age>>
    /\ UNCHANGED <<sis_parked, sis_orphans>>

\* SimInfoSync.restart: _restarting = False
SisRestartEnd ==
    /\ sis_caller.pc = "restart_end"
    /\ sis' = [sis EXCEPT !.restarting = FALSE]
    /\ sis_caller' = [sis_caller EXCEPT !.pc = "idle", !.ret = "done"]
    /\ UNCHANGED <<scorMem, teleMem, rf2Vars, scan, api, sis_rgn, sis_thread, sis_loop,
                   sis_age>>
    /\ UNCHANGED <<sis_parked, sis_orphans>>

\* SimInfoSync.setMode
SisSetMode(mode) ==
    /\ sis_caller.pc = "idle"
    /\ sis.access_mode # mode
    /\ sis' = [sis EXCEPT !.access_mode = mode]
    /\ UNCHANGED <<scorMem, teleMem, rf2Vars, scan, api, sis_rgn, sis_thread, sis_loop,
                   sis_age, sis_caller>>
    /\ UNCHANGED <<sis_parked, sis_orphans>>

(***************************************************************************)
(* SimInfoSync.__update: the background loop, run by the update thread.    *)
(***************************************************************************)
\* while self._updating, and the statements after the loop
SisLoopTest ==
    /\ sis_loop.pc = "test"
    /\ IF sis.updating
       THEN /\ sis_loop' = [sis_loop EXCEPT !.pc = "refresh"]
            /\ UNCHANGED <<sis, sis_thread>>
       ELSE /\ sis' = [sis EXCEPT !.stopped = TRUE, !.paused = FALSE]
            /\ sis_loop' = [sis_loop EXCEPT !.pc = "done"]
            /\ sis_thread' = "dead"
    /\ UNCHANGED <<scorMem, teleMem, rf2Vars, scan, api, sis_rgn, sis_age, sis_caller>>
    /\ UNCHANGED <<sis_parked, sis_orphans>>

\* update_mmap; an exception ends the thread
SisLoopRefresh ==
    /\ sis_loop.pc = "refresh"
    /\ LET s == SisUpdateMMap(sis_rgn)
       IN  /\ sis_rgn' = s.g
           /\ IF s.err = "none"
              THEN /\ sis_loop' = [sis_loop EXCEPT !.pc = "sync"]
                   /\ UNCHANGED sis_thread
              ELSE /\ sis_loop' = [sis_loop EXCEPT !.pc = "crashed"]
                   /\ sis_thread' = "dead"
    /\ UNCHANGED <<scorMem, teleMem, rf2Vars, scan, api, sis, sis_age, sis_caller>>
    /\ UNCHANGED <<sis_parked, sis_orphans>>

\* the resolution and the pause counter, skipped while the data is frozen
SisLoopSync ==
    /\ sis_loop.pc = "sync"
    /\ IF sis_loop.data_freezed
       THEN /\ sis_loop' = [sis_loop EXCEPT !.pc = "check"]
            /\ UNCHANGED sis
       ELSE LET r == SyncLocalPlayerData(SisData("scor"), SisData("tele"), sis)
                c == NextCounter(sis_loop.reset_counter, r.synced)
            IN  /\ sis' = [r.e EXCEPT !.paused = IF c = PauseTries THEN TRUE
                                                 ELSE IF r.synced THEN FALSE
                                                 ELSE @]
                /\ sis_loop' = [sis_loop EXCEPT !.reset_counter = c, !.pc = "check"]
    /\ UNCHANGED <<scorMem, teleMem, rf2Vars, scan, api, sis_rgn, sis_thread, sis_age,
                   sis_caller>>
    /\ UNCHANGED <<sis_parked, sis_orphans>>

\* the version check every SisWindow seconds, and the resume
SisLoopCheck ==
    /\ sis_loop.pc = "check"
    /\ LET ver     == SisData("scor").e
           expired == sis_age > SisWindow
           freeze  == expired /\ ~sis_loop.data_freezed
                      /\ sis_loop.last_version_update = ver
           lvu     == IF expired THEN ver ELSE sis_loop.last_version_update
           frozen1 == sis_loop.data_freezed \/ freeze
           resume  == frozen1 /\ lvu # ver
       IN  /\ sis_age' = IF expired THEN 0 ELSE sis_age
           /\ sis_loop' = [pc |-> "sleep",
                           last_version_update |-> lvu,
                           data_freezed |-> frozen1 /\ ~resume,
                           reset_counter |-> sis_loop.reset_counter,
                           update_delay |-> IF resume THEN ActiveDelay
                                            ELSE IF freeze THEN IdleDelay
                                            ELSE sis_loop.update_delay]
           /\ sis' = [sis EXCEPT !.paused = IF resume THEN FALSE
                                            ELSE IF freeze THEN TRUE ELSE @]
    /\ UNCHANGED <<scorMem, teleMem, rf2Vars, scan, api, sis_rgn, sis_thread, sis_caller>>
    /\ UNCHANGED <<sis_parked, sis_orphans>>

\* time.sleep(update_delay) returns
SisLoopSleep ==
    /\ sis_loop.pc = "sleep"
    /\ sis_loop' = [sis_loop EXCEPT !.pc = "test"]
    /\ UNCHANGED <<scorMem, teleMem, rf2Vars, scan, api, sis, sis_rgn, sis_thread,
                   sis_age, sis_caller>>
    /\ UNCHANGED <<sis_parked, sis_orphans>>

\* one second passes while the thread sleeps
SisTick ==
    /\ sis_loop.pc = "sleep"
    /\ sis_age < SisAgeCap
    /\ sis_age' = sis_age + 1
    /\ UNCHANGED <<scorMem, teleMem, rf2Vars, scan, api, sis, sis_rgn, sis_thread,
                   sis_loop, sis_caller>>
    /\ UNCHANGED <<sis_parked, sis_orphans>>

\* the scheduler runs the other caller thread
SisSwitch ==
    /\ sis_caller' = sis_parked
    /\ sis_parked' = sis_caller
    /\ sis_caller # sis_parked
    /\ UNCHANGED <<scorMem, teleMem, rf2Vars, scan, api, sis, sis_rgn, sis_thread,
                   sis_loop, sis_age, sis_orphans>>

\* an update thread that _thread no longer refers to leaves its loop: only
\* its end is followed, not its iterations
SisOrphanExit ==
    /\ sis_orphans > 0
    /\ ~sis.updating
    /\ sis_orphans' = sis_orphans - 1
    /\ sis' = [sis EXCEPT !.stopped = TRUE, !.paused = FALSE]
    /\ UNCHANGED <<scorMem, teleMem, rf2Vars, scan, api, sis_rgn, sis_thread, sis_loop,
                   sis_age, sis_caller, sis_parked>>

\* SimInfoSync.__init__
InitSimInfoSync ==
    /\ sis = [stopped |-> TRUE, updating |-> FALSE, restarting |-> FALSE,
              paused |-> TRUE, override |-> FALSE,
              scor_index |-> INVALID_INDEX, tele_index |-> INVALID_INDEX,
              scor_mid |-> 0, player_scor |-> None, player_tele |-> None,
              access_mode |-> 0]
    /\ sis_rgn = [r \in Regions |-> NewRegion]
    /\ sis_thread = "none"
    /\ sis_loop = SisNoLoop
    /\ sis_age = SisAgeCap
    /\ sis_caller = [pc |-> "idle", call |-> "none", ret |-> "none",
                     was_stopped |-> TRUE]
    /\ sis_parked = [pc |-> "idle", call |-> "none", ret |-> "none",
                     was_stopped |-> TRUE]
    /\ sis_orphans = 0

(***************************************************************************)
(* The simulator: begin stamp, body, end stamp.                            *)
(***************************************************************************)
ScorBegin ==
    /\ scorMem.b = scorMem.e
    /\ scorMem.b < MaxVersion
    /\ scorMem' = [scorMem EXCEPT !.b = @ + 1]
    /\ UNCHANGED <<teleMem, rgn, engineVars, loop, age, access_mode, cpc, ret, prev>>
    /\ UNCHANGED <<scan, api, parked, sisVars>>

ScorWrite(k, v) ==
    /\ scorMem.b # scorMem.e
    /\ scorMem' = [scorMem EXCEPT !.veh[k] = v]
    /\ UNCHANGED <<teleMem, rgn, engineVars, loop, age, access_mode, cpc, ret, prev>>
    /\ UNCHANGED <<scan, api, parked, sisVars>>

ScorEnd ==
    /\ scorMem.b # scorMem.e
    /\ scorMem' = [scorMem EXCEPT !.e = scorMem.b]
    /\ UNCHANGED <<teleMem, rgn, engineVars, loop, age, access_mode, cpc, ret, prev>>
    /\ UNCHANGED <<scan, api, parked, sisVars>>

TeleBegin ==
    /\ teleMem.b = teleMem.e
    /\ teleMem.b < MaxVersion
    /\ teleMem' = [teleMem EXCEPT !.b = @ + 1]
    /\ UNCHANGED <<scorMem, rgn, engineVars, loop, age, access_mode, cpc, ret, prev>>
    /\ UNCHANGED <<scan, api, parked, sisVars>>

TeleWrite(k, v) ==
    /\ teleMem.b # teleMem.e
    /\ teleMem' = [teleMem EXCEPT !.veh[k] = v]
    /\ UNCHANGED <<scorMem, rgn, engineVars, loop, age, access_mode, cpc, ret, prev>>
    /\ UNCHANGED <<scan, api, parked, sisVars>>

TeleNum(n) ==
    /\ teleMem.b # teleMem.e
    /\ teleMem' = [teleMem EXCEPT !.num = n]
    /\ UNCHANGED <<scorMem, rgn, engineVars, loop, age, access_mode, cpc, ret, prev>>
    /\ UNCHANGED <<scan, api, parked, sisVars>>

TeleEnd ==
    /\ teleMem.b # teleMem.e
    /\ teleMem' = [teleMem EXCEPT !.e = teleMem.b]
    /\ UNCHANGED <<scorMem, rgn, engineVars, loop, age, access_mode, cpc, ret, prev>>
    /\ UNCHANGED <<scan, api, parked, sisVars>>

(***************************************************************************)
(* Specification: one caller, the update thread and the simulator.         *)
(***************************************************************************)
ZeroScor == [b |-> 0, e |-> 0, veh |-> [k \in Slots |-> [mID |-> 0, mIsPlayer |-> FALSE]]]
ZeroTele == [b |-> 0, e |-> 0, num |-> 0, veh |-> [k \in Slots |-> [mID |-> 0]]]

\* SyncData.__init__ and RF2SM.__init__
InitEngine ==
    /\ rgn = [r \in Regions |-> NewRegion]
    /\ updating = FALSE
    /\ event = FALSE
    /\ thread = "none"
    /\ tele_idx_dict = InitTeleIdxDict
    /\ paused = FALSE
    /\ override_player_index = FALSE
    /\ player_scor_index = INVALID_INDEX
    /\ player_scor = None
    /\ player_tele = None
    /\ loop = NoLoop
    /\ age = AgeCap
    /\ access_mode = 0
    /\ cpc = "idle"
    /\ ret = "none"
    /\ prev = [idx |-> INVALID_INDEX, mID |-> INVALID_INDEX, counter |-> 0]
    /\ parked = [pc |-> "idle", ret |-> "none"]

\* no scan applied
NotRun == INVALID_INDEX - 1
NoScan == [veh |-> ZeroScor.veh, idx_last |-> INVALID_INDEX, rf2 |-> NotRun, sis |-> NotRun]

\* SimInfoAPI over a zero-filled extended region, no call made
NoApi == [mVersion |-> <<>>, is64bit |-> 0, sharedMemoryVerified |-> FALSE, ret |-> "none"]

Init ==
    /\ scorMem = ZeroScor
    /\ teleMem = ZeroTele
    /\ InitEngine
    /\ InitSimInfoSync
    /\ scan = NoScan
    /\ api = NoApi

\* the region whose mapping cannot be opened in a start(), if any
OpenFailures == {"no", "tele"}
\* the regions whose shared buffer another object may still hold at close()
HeldSets == {{}, {"ext"}}
\* what the simulator writes into scoring slot 0: no vehicle, or the local player
LifeSlots == {[mID |-> 0, mIsPlayer |-> FALSE], [mID |-> 1, mIsPlayer |-> TRUE]}

Caller ==
    \/ CallStart \/ StartCheck \/ (\E f \in OpenFailures : StartOpen(f))
    \/ StartSync \/ StartSpawn
    \/ CallStop \/ StopCheck \/ StopFlag \/ StopJoin
    \/ (\E held \in HeldSets : StopClose(held))
    \/ (\E m \in 0 .. 1 : SetMode(m))

Updater == LoopInit \/ LoopWait \/ LoopRefresh \/ LoopSync \/ LoopFreeze

Next ==
    \/ Caller
    \/ Updater
    \/ Tick
    \/ ScorBegin \/ ScorEnd
    \/ (\E v \in LifeSlots : ScorWrite(0, v))

Spec == Init /\ [][Next]_vars

(***************************************************************************)
(* C1  RF2MMap.update() in copy mode on a region that holds a snapshot:    *)
(* a copy whose two version stamps differ leaves data as it was; a copy    *)
(* whose stamps are equal becomes data, equal to the region's content at   *)
(* the moment of the copy.                                                 *)
(***************************************************************************)
RefreshStep == loop.pc = "refresh" /\ loop'.pc \in {"sync", "freeze"}

C1_CopyUpdateKeepsOrReplaces ==
    [][\A r \in {"scor", "tele"} :
         (RefreshStep /\ rgn[r].mode = 0 /\ rgn[r].out # None)
            => IF Mem(r).b # Mem(r).e
               THEN rgn'[r].out = rgn[r].out
               ELSE rgn'[r].out = Mem(r)]_vars

\* after a refresh in copy mode the snapshot is an older, coherent one while the
\* memory is in the middle of a write
C1_Witness ==
    /\ loop.pc \in {"sync", "freeze"}
    /\ rgn["scor"].mode = 0
    /\ scorMem.b # scorMem.e
    /\ rgn["scor"].out.b = rgn["scor"].out.e
    /\ rgn["scor"].out.e = scorMem.e
    /\ loop.last_version_update # scorMem.e

(***************************************************************************)
(* C2  stop() on a Running engine returns only after the loop has exited,  *)
(* and the regions are closed only after the loop's last iteration: the    *)
(* loop never refreshes a closed region.                                   *)
(***************************************************************************)
C2_StopJoinsBeforeClose ==
    /\ (~updating /\ cpc \notin {"stop_join", "stop_close"}) => thread # "alive"
    /\ thread = "alive" => \A r \in Regions : rgn[r].inst = "open"
    /\ loop.pc # "crashed"

\* stop() has returned normally: the loop is done and the regions are closed
C2_Witness ==
    /\ cpc = "idle" /\ ret = "done" /\ ~updating
    /\ thread = "dead" /\ loop.pc = "done"
    /\ \A r \in Regions : rgn[r].inst = "closed"

(***************************************************************************)
(* C4  start() while the engine is already Running is a no-op: no region   *)
(* is reopened, no second thread is spawned, and paused, player_scor,      *)
(* player_tele and player_scor_index stay as they are.                     *)
(***************************************************************************)
C4_StartWhileRunningNoOp ==
    [][(cpc = "start" /\ updating /\ cpc' # cpc)
         => /\ cpc' = "idle"
            /\ UNCHANGED <<rgn, thread, loop, updating, event, paused, player_scor,
                           player_tele, player_scor_index, tele_idx_dict>>]_vars

\* a start() on a running engine has returned with the warning only
C4_Witness ==
    /\ cpc = "idle" /\ ret = "warned" /\ updating
    /\ thread = "alive" /\ loop.pc \in {"wait", "refresh", "sync", "freeze"}

(***************************************************************************)
(* C5  After the first successful start(), the local-player accessors      *)
(* rf2ScorVeh(None) and rf2TeleVeh(None) return a vehicle snapshot, never  *)
(* None: while running, paused or frozen, and after stop().                *)
(***************************************************************************)
\* RF2SM.rf2ScorVeh(None) / RF2SM.rf2TeleVeh(None)
Rf2ScorVehLocal == player_scor
Rf2TeleVehLocal == player_tele

C5_PlayerSnapshotDefined ==
    thread # "none" => (Rf2ScorVehLocal \in ScorSlot /\ Rf2TeleVehLocal \in TeleSlot)

\* stopped after a start that found no local player
C5_Witness ==
    /\ thread = "dead" /\ cpc = "idle" /\ ~updating
    /\ player_scor_index = INVALID_INDEX
    /\ Rf2ScorVehLocal \in ScorSlot /\ Rf2TeleVehLocal \in TeleSlot

(***************************************************************************)
(* C6  If opening a region fails during start(), the error reaches the     *)
(* caller and the engine is left Stopped: a later start() opens the        *)
(* regions again instead of answering 'already started'.                   *)
(***************************************************************************)
C6_FailedStartLeavesStopped ==
    (cpc = "idle" /\ ret = "OSError") => (~updating /\ thread # "alive")

(***************************************************************************)
(* Slot resolution: the simulator publishes whole coherent frames while    *)
(* the engine is started once and its update thread runs.  A frame holds   *)
(* the vehicles 1 .. MAX_VEHICLES rotated by r slots; scoring flags        *)
(* vehicle p as the player (p = 0: nobody), telemetry has n active slots.  *)
(***************************************************************************)
SyncScorFrame(r, p) ==
    [k \in Slots |-> LET id == ((k + r) % MAX_VEHICLES) + 1
                     IN  [mID |-> id, mIsPlayer |-> id = p]]

SyncTeleFrame(r, n) ==
    [k \in Slots |-> IF k < n THEN [mID |-> ((k + r) % MAX_VEHICLES) + 1]
                     ELSE [mID |-> 0]]

\* the engine is about to read the mappings
AboutToRead == loop.pc = "refresh" \/ cpc = "start_open"

PublishScor(veh) ==
    /\ AboutToRead
    /\ scorMem.b = scorMem.e
    /\ scorMem.b < MaxVersion
    /\ scorMem' = [b |-> scorMem.b + 1, e |-> scorMem.b + 1, veh |-> veh]
    /\ UNCHANGED <<teleMem, rf2Vars, scan, api, sisVars>>

PublishTele(n, veh) ==
    /\ AboutToRead
    /\ teleMem.b = teleMem.e
    /\ teleMem.b < MaxVersion
    /\ teleMem' = [b |-> teleMem.b + 1, e |-> teleMem.b + 1, num |-> n, veh |-> veh]
    /\ UNCHANGED <<scorMem, rf2Vars, scan, api, sisVars>>

\* the caller starts the engine once
StartOnce == thread = "none" /\ CallStart

NextSync ==
    \/ StartOnce \/ StartCheck \/ StartOpen("no") \/ StartSync \/ StartSpawn
    \/ Updater
    \/ \E r \in Slots, p \in 0 .. MAX_VEHICLES : PublishScor(SyncScorFrame(r, p))
    \/ \E r \in Slots, n \in 0 .. MAX_VEHICLES : PublishTele(n, SyncTeleFrame(r, n))

SpecSync == Init /\ [][NextSync]_vars

\* a resolution made by the update thread
SyncStep == loop.pc = "sync" /\ loop'.pc = "freeze"

(***************************************************************************)
(* C7: whenever sync_tele_index(scor_idx) yields an index t other than     *)
(* INVALID_INDEX, the telemetry slot t carries the same mID as the scoring *)
(* slot scor_idx.                                                          *)
(***************************************************************************)
C7_TeleIndexMatchesMID ==
    (loop.pc \in {"sync", "freeze"}) =>
        \A i \in Slots :
            LET t == SyncTeleIndex(tele_idx_dict, Data("scor"), i)
            IN  t # INVALID_INDEX =>
                    Data("tele").veh[t].mID = Data("scor").veh[i].mID

(***************************************************************************)
(* C8: a resolution that finds the player in scoring while no telemetry    *)
(* slot carries the player's mID succeeds, takes the scoring index and     *)
(* copy, and leaves the player telemetry copy as it was.                   *)
(***************************************************************************)
C8_NoTeleMatchKeepsTele ==
    [][LET scor == Data("scor")
           tele == Data("tele")
           j    == LocalScorIndex(scor)
       IN  (/\ SyncStep
            /\ ~override_player_index
            /\ j # INVALID_INDEX
            /\ \A k \in Slots : tele.veh[k].mID # scor.veh[PyIndex(j)].mID)
           => /\ loop'.reset_counter = 0
              /\ player_scor_index' = j
              /\ player_scor' = scor.veh[j]
              /\ player_tele' = player_tele]_vars

(***************************************************************************)
(* C9: without an override, when the player's vehicle (same mID) is        *)
(* flagged at scoring slot j after having been at slot i, and telemetry    *)
(* has an active slot with that mID, the resolution takes index j, copies  *)
(* scoring slot j, and copies the telemetry slot found by the mID, not the *)
(* slot at the old index.                                                  *)
(***************************************************************************)
PlayerMoved(scor, tele, j) ==
    /\ ~override_player_index
    /\ player_scor_index \in Slots
    /\ player_scor # None
    /\ player_scor.mIsPlayer
    /\ j \in Slots
    /\ j # player_scor_index
    /\ scor.veh[j].mID = player_scor.mID
    /\ \E k \in Slots : k < tele.num /\ tele.veh[k].mID = player_scor.mID

StoredIndexes == INVALID_INDEX .. (MAX_VEHICLES - 1)

InitScan ==
    /\ scorMem = ZeroScor
    /\ teleMem = ZeroTele
    /\ InitEngine
    /\ InitSimInfoSync
    /\ scan \in [veh : ScorVehicles, idx_last : StoredIndexes,
                  rf2 : {NotRun}, sis : {NotRun}]
    /\ api = NoApi

\* SyncData.__local_scor_index on the array
ScanSyncData ==
    /\ scan.rf2 = NotRun
    /\ scan' = [scan EXCEPT !.rf2 = LocalScorIndex([veh |-> scan.veh])]
    /\ UNCHANGED <<scorMem, teleMem, rf2Vars, api, sisVars>>

\* SimInfoSync.__find_local_scor_index on the array and the stored index
ScanSimInfoSync ==
    /\ scan.sis = NotRun
    /\ scan' = [scan EXCEPT !.sis = FindLocalScorIndex(scan.veh, scan.idx_last)]
    /\ UNCHANGED <<scorMem, teleMem, rf2Vars, api, sisVars>>

NextScan == ScanSyncData \/ ScanSimInfoSync

SpecScan == InitScan /\ [][NextScan]_vars

\* the lowest index whose slot is flagged, INVALID_INDEX when none is
LowestFlagged(veh) ==
    LET flagged == {k \in Slots : veh[k].mIsPlayer}
    IN  IF flagged = {} THEN INVALID_INDEX
        ELSE CHOOSE k \in flagged : \A j \in flagged : k <= j

(***************************************************************************)
(* C10: for every scoring array and every stored index, each engine's scan *)
(* returns the lowest index whose slot has mIsPlayer set, and              *)
(* INVALID_INDEX exactly when no slot has it set.                          *)
(***************************************************************************)
C10_ScanReturnsLowestFlagged ==
    /\ scan.rf2 # NotRun => scan.rf2 = LowestFlagged(scan.veh)
    /\ scan.sis # NotRun => scan.sis = LowestFlagged(scan.veh)

\* the half of C10 about SyncData alone
ScanSyncDataLowest == scan.rf2 # NotRun => scan.rf2 = LowestFlagged(scan.veh)

(***************************************************************************)
(* SimInfoSync's life cycle: one caller, the update thread and the         *)
(* simulator.                                                              *)
(***************************************************************************)
SisCallerNext ==
    \/ SisCallStart \/ SisStartCheck \/ (\E f \in OpenFailures : SisStartOpen(f))
    \/ SisStartUpdate \/ SisStartSpawn
    \/ SisCallStop \/ SisStopFlag \/ SisStopJoin
    \/ (\E held \in HeldSets : SisStopClose(held))
    \/ SisCallRestart \/ SisRestartCheck \/ SisRestartSet \/ SisRestartEnd
    \/ (\E m \in 0 .. 1 : SisSetMode(m))

SisUpdater == SisLoopTest \/ SisLoopRefresh \/ SisLoopSync \/ SisLoopCheck \/ SisLoopSleep

NextSIS ==
    \/ SisCallerNext
    \/ SisUpdater
    \/ SisTick
    \/ ScorBegin \/ ScorEnd
    \/ (\E v \in LifeSlots : ScorWrite(0, v))

SpecSIS == Init /\ [][NextSIS]_vars

(***************************************************************************)
(* C3: on both engines, a stop() issued while the engine is Stopped (a     *)
(* second consecutive stop(), or a stop() before any start()) raises no    *)
(* error and changes no engine state.                                      *)
(***************************************************************************)
SyncDataStopWhileStopped ==
    (cpc = "stop" /\ ~updating /\ cpc' # cpc)
        => /\ cpc' = "idle"
           /\ ret' \in {"done", "warned"}
           /\ UNCHANGED <<rgn, engineVars, loop>>

SimInfoSyncStopWhileStopped ==
    (/\ sis_caller.call = "stop"
     /\ sis_caller.was_stopped
     /\ sis_caller.pc # "idle")
        => /\ sis_caller'.pc = "idle" => sis_caller'.ret \in {"done", "warned"}
           /\ UNCHANGED <<sis, sis_rgn, sis_thread, sis_loop>>

C3_StopWhileStoppedNoOp ==
    [][SyncDataStopWhileStopped /\ SimInfoSyncStopWhileStopped]_vars

\* the half of C3 about SyncData alone
SyncDataStopNoOp == [][SyncDataStopWhileStopped]_vars

(***************************************************************************)
(* Slot resolution with the player override: as SpecSync, and the caller   *)
(* sets the override state and the pinned index at any time outside        *)
(* start().                                                                *)
(***************************************************************************)
\* the indexes a caller passes to setPlayerIndex
PinnedIndexes == (INVALID_INDEX - 1) .. MAX_VEHICLES

\* the caller's setters take effect at the next resolution: they are called
\* before the start, or while the update thread is about to resolve
PinPoint == thread = "none" \/ loop.pc = "sync"
PinOverride(state) == PinPoint /\ SetPlayerOverride(state)
PinIndex(index) == PinPoint /\ SetPlayerIndex(index)

NextPin ==
    \/ NextSync
    \/ \E state \in BOOLEAN : PinOverride(state)
    \/ \E index \in PinnedIndexes : PinIndex(index)

SpecPin == Init /\ [][NextPin]_vars

(***************************************************************************)
(* C11: with the player override enabled, a resolution of the loop leaves  *)
(* player_scor_index as it is, copies the scoring slot at that index       *)
(* whatever the mIsPlayer flags say, and succeeds: the retry counter is 0  *)
(* afterwards and the resolution does not set paused.                      *)
(***************************************************************************)
C11_OverridePinsIndex ==
    [][(SyncStep /\ override_player_index)
        => /\ player_scor_index' = player_scor_index
           /\ player_scor' = Data("scor").veh[PyIndex(player_scor_index)]
           /\ loop'.reset_counter = 0
           /\ paused' = FALSE]_vars

C11_Witness ==
    /\ loop.pc = "freeze"
    /\ ~loop.data_freezed
    /\ override_player_index
    /\ loop.reset_counter = 0
    /\ ~paused
    /\ LocalScorIndex(Data("scor")) \in Slots
    /\ player_scor_index # LocalScorIndex(Data("scor"))
    /\ prev.idx = player_scor_index
    /\ player_scor = Data("scor").veh[PyIndex(player_scor_index)]
    /\ ~player_scor.mIsPlayer

(***************************************************************************)
(* The background loops: the program creates one of the two engines and    *)
(* starts it once; the loop runs, seconds pass while it sleeps, and the    *)
(* simulator publishes coherent scoring frames with or without the local   *)
(* player.                                                                 *)
(***************************************************************************)
LoopFrames == {SyncScorFrame(0, 0), SyncScorFrame(0, 1)}

\* the running engine is about to read the mappings
LoopAboutToRead ==
    \/ AboutToRead
    \/ sis_loop.pc = "refresh"
    \/ sis_caller.pc = "start_update"

FeedScor(veh) ==
    /\ LoopAboutToRead
    /\ scorMem.b = scorMem.e
    /\ scorMem.b < MaxVersion
    /\ scorMem' = [b |-> scorMem.b + 1, e |-> scorMem.b + 1, veh |-> veh]
    /\ UNCHANGED <<teleMem, rf2Vars, scan, api, sisVars>>

\* the program uses RF2SM / SyncData
UseSyncData ==
    /\ sis_thread = "none"
    /\ sis_caller.pc = "idle"
    /\ StartOnce

\* the program uses SimInfoSync
UseSimInfoSync ==
    /\ thread = "none"
    /\ cpc = "idle"
    /\ sis_thread = "none"
    /\ SisCallStart

NextLoop ==
    \/ UseSyncData \/ StartCheck \/ StartOpen("no") \/ StartSync \/ StartSpawn
    \/ Updater \/ Tick
    \/ UseSimInfoSync \/ SisStartCheck \/ SisStartOpen("no") \/ SisStartUpdate
    \/ SisStartSpawn
    \/ SisUpdater \/ SisTick
    \/ \E veh \in LoopFrames : FeedScor(veh)

SpecLoop == Init /\ [][NextLoop]_vars

\* a resolution made by SimInfoSync's update thread while not frozen
SisSyncStep ==
    sis_loop.pc = "sync" /\ ~sis_loop.data_freezed /\ sis_loop'.pc = "check"

\* the resolution a step makes finds no local player
Miss == LocalScorIndex(Data("scor")) = INVALID_INDEX
SisMiss ==
    FindLocalScorIndex(SisData("scor").veh, sis.scor_index) = INVALID_INDEX

(***************************************************************************)
(* C12: in either loop, while not frozen, a resolution miss that follows   *)
(* fewer than 4 consecutive misses counts one more and leaves paused       *)
(* false; the miss that follows 4 consecutive misses (the 5th) sets        *)
(* paused true.                                                            *)
(***************************************************************************)
C12_PauseAtFifthMiss ==
    [][/\ (SyncStep /\ Miss /\ loop.reset_counter < PauseTries)
            => /\ loop'.reset_counter = loop.reset_counter + 1
               /\ paused' = (loop'.reset_counter = PauseTries)
       /\ (SisSyncStep /\ SisMiss /\ sis_loop.reset_counter < PauseTries)
            => /\ sis_loop'.reset_counter = sis_loop.reset_counter + 1
               /\ sis'.paused = (sis_loop'.reset_counter = PauseTries)]_vars

C12_Witness ==
    /\ loop.pc = "freeze"
    /\ ~loop.data_freezed
    /\ loop.reset_counter = PauseTries
    /\ paused
    /\ Miss

\* the same case in SimInfoSync's loop
SisFifthMiss ==
    /\ sis_loop.pc = "check"
    /\ ~sis_loop.data_freezed
    /\ sis_loop.reset_counter = PauseTries
    /\ sis.paused

(***************************************************************************)
(* C13: in SyncData's loop, while not frozen, a successful resolution sets *)
(* the counter to 0 and paused false; when it follows fewer than 5         *)
(* consecutive misses, paused was not true before it either, and a miss    *)
(* at counter 0 counts 1.                                                  *)
(***************************************************************************)
C13_HitResetsCounter ==
    [][/\ (SyncStep /\ ~Miss)
            => /\ loop'.reset_counter = 0
               /\ ~paused'
               /\ loop.reset_counter < PauseTries => ~paused
       /\ (SyncStep /\ Miss /\ loop.reset_counter = 0)
            => loop'.reset_counter = 1]_vars

C13_Witness ==
    /\ loop.pc = "freeze"
    /\ ~loop.data_freezed
    /\ prev.counter = PauseTries - 1
    /\ loop.reset_counter = 0
    /\ ~paused
    /\ ~Miss

(***************************************************************************)
(* C14: in SyncData's loop, whenever the engine is not frozen and the last *)
(* resolution attempt was at least the 5th consecutive miss, paused is     *)
(* true, also after a freeze and a resume with the player still absent.    *)
(***************************************************************************)
C14_PausedAfterPlayerLoss ==
    (/\ loop.pc = "freeze"
     /\ ~loop.data_freezed
     /\ Miss
     /\ loop.reset_counter >= PauseTries)
        => paused

\* the version checks of the two loops
FreezeStep == loop.pc = "freeze" /\ loop'.pc = "wait"
SisCheckStep == sis_loop.pc = "check" /\ sis_loop'.pc = "sleep"

(***************************************************************************)
(* C15: in either loop, a version check made while not frozen freezes the  *)
(* engine when the scoring version has not changed for longer than the     *)
(* window (2 s since the last change seen by SyncData, 5 s since the       *)
(* previous check of SimInfoSync): paused becomes true and the poll delay  *)
(* the idle value; otherwise the engine stays not frozen.                  *)
(***************************************************************************)
C15_FreezeAfterWindow ==
    [][/\ (FreezeStep /\ ~loop.data_freezed)
            => IF Data("scor").e = loop.last_version_update /\ age > FreezeWindow
               THEN /\ loop'.data_freezed
                    /\ paused'
                    /\ loop'.update_delay = IdleDelay
               ELSE ~loop'.data_freezed
       /\ (SisCheckStep /\ ~sis_loop.data_freezed)
            => IF SisData("scor").e = sis_loop.last_version_update
                  /\ sis_age > SisWindow
               THEN /\ sis_loop'.data_freezed
                    /\ sis'.paused
                    /\ sis_loop'.update_delay = IdleDelay
               ELSE ~sis_loop'.data_freezed]_vars

C15_Witness ==
    /\ sis_thread = "alive"
    /\ sis_loop.pc = "sleep"
    /\ sis_loop.data_freezed
    /\ sis_loop.reset_counter > 0
    /\ sis.paused
    /\ sis_loop.update_delay = IdleDelay
    /\ sis_age = 0

\* the same case in SyncData's loop
SyncDataFroze ==
    /\ loop.pc = "wait"
    /\ loop.data_freezed
    /\ loop.freezed_version > 0
    /\ paused
    /\ loop.update_delay = IdleDelay

(***************************************************************************)
(* C16: in either loop, the first version check of a frozen engine that    *)
(* reads a scoring version other than the frozen one clears the frozen     *)
(* state, sets paused false and the poll delay to the active value.        *)
(***************************************************************************)
SyncDataResumes ==
    (FreezeStep /\ loop.data_freezed /\ Data("scor").e # loop.freezed_version)
        => /\ ~loop'.data_freezed
           /\ ~paused'
           /\ loop'.update_delay = ActiveDelay

SimInfoSyncResumes ==
    (SisCheckStep /\ sis_loop.data_freezed
        /\ SisData("scor").e # sis_loop.last_version_update)
        => /\ ~sis_loop'.data_freezed
           /\ ~sis'.paused
           /\ sis_loop'.update_delay = ActiveDelay

C16_ResumeOnVersionChange == [][SyncDataResumes /\ SimInfoSyncResumes]_vars

\* the half of C16 about SyncData alone
SyncDataResumeOnChange == [][SyncDataResumes]_vars

(***************************************************************************)
(* The start scenario of SimInfoSync: the buffers are coherent and static; *)
(* exactly one scoring slot is flagged as the player, and telemetry holds  *)
(* every vehicle once.  The engine is started once and its loop runs.      *)
(***************************************************************************)
InitScenario ==
    /\ \E r \in Slots, p \in 1 .. MAX_VEHICLES :
            scorMem = [b |-> 1, e |-> 1, veh |-> SyncScorFrame(r, p)]
    /\ \E r \in Slots :
            teleMem = [b |-> 1, e |-> 1, num |-> MAX_VEHICLES,
                       veh |-> SyncTeleFrame(r, MAX_VEHICLES)]
    /\ InitEngine
    /\ InitSimInfoSync
    /\ scan = NoScan
    /\ api = NoApi

NextScenario ==
    \/ UseSimInfoSync \/ SisStartCheck \/ SisStartOpen("no") \/ SisStartUpdate
    \/ SisStartSpawn
    \/ SisUpdater \/ SisTick

SpecScenario == InitScenario /\ [][NextScenario]_vars

\* SimInfoSync.playerScorIndex, playerTeleIndex and paused
PlayerScorIndex == sis.scor_index
PlayerTeleIndex == sis.tele_index
SisPaused == sis.paused

(***************************************************************************)
(* C17: SimInfoSync started on coherent buffers with exactly one scoring   *)
(* slot i flagged (mID m) and telemetry slot j holding mID m reports,      *)
(* after start() and one cycle of the loop, playerScorIndex = i,           *)
(* playerTeleIndex = j and paused = False.                                 *)
(***************************************************************************)
C17_StartScenarioResolved ==
    (sis_thread = "alive" /\ sis_loop.pc = "sleep")
        => LET i == LowestFlagged(scorMem.veh)
           IN  /\ PlayerScorIndex = i
               /\ teleMem.veh[PyIndex(PlayerTeleIndex)].mID = scorMem.veh[i].mID
               /\ PlayerTeleIndex \in Slots
               /\ ~SisPaused

(***************************************************************************)
(* Concurrent restarts: SimInfoSync is started once, then each of two      *)
(* caller threads calls restart() once; the scheduler switches between     *)
(* them at any point.  When both calls are over, one thread calls stop().  *)
(***************************************************************************)
\* the first start(), before any restart()
StartFirst ==
    /\ sis_thread = "none"
    /\ sis_caller.call = "none"
    /\ sis_parked.call = "none"
    /\ SisCallStart

\* a caller thread calls restart() once, on the started engine
RestartOnce ==
    /\ sis_thread # "none"
    /\ sis_caller.call \in {"none", "start"}
    /\ SisCallRestart

\* once both restart() calls are over, a caller thread calls stop()
StopLast ==
    /\ sis_caller.call = "restart" /\ sis_caller.pc = "idle"
    /\ sis_parked.call = "restart" /\ sis_parked.pc = "idle"
    /\ SisCallStop

NextRestart ==
    \/ StartFirst \/ SisStartCheck \/ SisStartOpen("no") \/ SisStartUpdate
    \/ SisStartSpawn
    \/ SisStopFlag \/ SisStopJoin \/ SisStopClose({})
    \/ RestartOnce \/ SisRestartCheck \/ SisRestartSet \/ SisRestartEnd
    \/ StopLast
    \/ SisSwitch
    \/ SisUpdater \/ SisOrphanExit

SpecRestart == Init /\ [][NextRestart]_vars

\* the caller thread c is inside the stop() + start() sequence of restart()
InSequence(c) ==
    c.call = "restart" /\ c.pc \notin {"idle", "restart", "restart_set"}

\* the restart() call of caller thread c has returned or raised
Returned(c) == c.call = "restart" /\ c.pc = "idle"

(***************************************************************************)
(* C18: with two threads calling restart() concurrently, at most one       *)
(* stop() + start() sequence is in progress at any time, and when both     *)
(* calls have returned no call has raised, the engine is Running with      *)
(* exactly one update thread, and _restarting is cleared.                  *)
(***************************************************************************)
C18_RestartIsGuarded ==
    /\ ~(InSequence(sis_caller) /\ InSequence(sis_parked))
    /\ (Returned(sis_caller) /\ Returned(sis_parked))
        => /\ sis_caller.ret = "done"
           /\ sis_parked.ret = "done"
           /\ sis.updating
           /\ ~sis.stopped
           /\ sis_thread = "alive"
           /\ sis_loop.pc \notin {"crashed", "done"}
           /\ sis_orphans = 0
           /\ ~sis.restarting

\* both sequences end in a spawn: two update threads run
TwoLoops == sis_orphans > 0 /\ sis_thread = "alive"

(***************************************************************************)
(* C19: in copy mode every snapshot a region exposes, from create() to the *)
(* final copy kept by close(), is coherent: its two version stamps are     *)
(* equal, whatever the simulator was writing when the copy was taken.      *)
(***************************************************************************)
C19_CopySnapshotsCoherent ==
    \A r \in {"scor", "tele"} :
        (rgn[r].mode = 0 /\ rgn[r].out \notin {None, Live})
            => rgn[r].out.b = rgn[r].out.e

\* the final copy kept by close() is torn
TornAfterStop ==
    /\ cpc = "idle" /\ ret = "done" /\ ~updating
    /\ rgn["scor"].inst = "closed"
    /\ rgn["scor"].mode = 0
    /\ rgn["scor"].out.b # rgn["scor"].out.e

(***************************************************************************)
(* The data set used directly: a caller creates, updates and closes the    *)
(* four regions in any order while the simulator writes.                   *)
(***************************************************************************)
\* how a call on the data set ended
Outcome(s) == IF s.err = "none" THEN "done" ELSE s.err

DataSetCreate(mode, failAt) ==
    /\ LET s == CreateMMap(rgn, mode, failAt)
       IN  rgn' = s.g /\ ret' = Outcome(s)
    /\ UNCHANGED <<scorMem, teleMem, engineVars, loop, age, access_mode, cpc, prev>>
    /\ UNCHANGED <<scan, api, parked, sisVars>>

DataSetUpdate ==
    /\ LET s == UpdateMMap(rgn)
       IN  rgn' = s.g /\ ret' = Outcome(s)
    /\ UNCHANGED <<scorMem, teleMem, engineVars, loop, age, access_mode, cpc, prev>>
    /\ UNCHANGED <<scan, api, parked, sisVars>>

DataSetClose(held) ==
    /\ LET s == CloseMMap(rgn, held)
       IN  rgn' = s.g /\ ret' = Outcome(s)
    /\ UNCHANGED <<scorMem, teleMem, engineVars, loop, age, access_mode, cpc, prev>>
    /\ UNCHANGED <<scan, api, parked, sisVars>>

NextDataSet ==
    \/ \E mode \in 0 .. 1, f \in OpenFailures : DataSetCreate(mode, f)
    \/ DataSetUpdate
    \/ \E held \in HeldSets : DataSetClose(held)
    \/ ScorBegin \/ ScorEnd
    \/ (\E v \in LifeSlots : ScorWrite(0, v))

SpecDataSet == Init /\ [][NextDataSet]_vars

(***************************************************************************)
(* C20: close_mmap() called when the four regions are already closed       *)
(* raises no error and leaves every region, its kept snapshot included,    *)
(* unchanged.                                                              *)
(***************************************************************************)
C20_CloseTwiceIsNoOp ==
    [][((\E held \in HeldSets : DataSetClose(held))
            /\ \A r \in Regions : rgn[r].inst = "closed")
        => (ret' = "done" /\ rgn' = rgn)]_vars

(***************************************************************************)
(* C21: in direct mode the first update() after create() binds data to the *)
(* live mapping, and every later update() before close() is a no-op: the   *)
(* region object is left exactly as it was, data still the live mapping.   *)
(***************************************************************************)
C21_DirectUpdateBindsOnce ==
    [][\A r \in Regions :
         (RefreshStep /\ rgn[r].mode # 0)
            => /\ rgn'[r].out = Live
               /\ rgn'[r].sharing
               /\ rgn[r].sharing => (rgn[r].out = Live /\ rgn'[r] = rgn[r])]_vars

\* a later iteration of the loop in direct mode, the simulator in mid-write
C21_Witness ==
    /\ loop.pc = "sync"
    /\ rgn["scor"].mode = 1
    /\ rgn["scor"].sharing
    /\ rgn["scor"].out = Live
    /\ loop.last_version_update # 0
    /\ scorMem.b # scorMem.e

\* the same for the regions of SimInfoSync
SisDirectUpdateBindsOnce ==
    [][\A r \in Regions :
         (sis_loop.pc = "refresh" /\ sis_loop'.pc = "sync" /\ sis_rgn[r].mode # 0)
            => /\ sis_rgn'[r].out = Live
               /\ sis_rgn'[r].sharing
               /\ sis_rgn[r].sharing => (sis_rgn[r].out = Live /\ sis_rgn'[r] = sis_rgn[r])]_vars

(***************************************************************************)
(* C22: after stop() followed by start(), in copy or direct mode, the      *)
(* engine is Running again: start() returns with one live loop over open   *)
(* regions, the new thread never replaces a live one, and every refresh of *)
(* the loop reads the newly opened mappings: in direct mode data is bound  *)
(* to the live mapping, in copy mode a coherent content becomes data.      *)
(***************************************************************************)
SpawnStep == cpc = "start_spawn" /\ cpc' = "idle"

C22_StartAfterStopResumes ==
    /\ [](  (cpc = "idle" /\ ret = "done" /\ updating)
            => /\ thread = "alive"
               /\ loop.pc \in {"init", "wait", "refresh", "sync", "freeze"}
               /\ \A r \in Regions : rgn[r].inst = "open")
    /\ [][/\ SpawnStep => (thread # "alive" /\ thread' = "alive" /\ loop'.pc = "init")
          /\ RefreshStep =>
                \A r \in Regions :
                    /\ rgn[r].inst = "open"
                    /\ rgn[r].mode # 0 => rgn'[r].out = Live
                    /\ (rgn[r].mode = 0 /\ Mem(r).b = Mem(r).e) => rgn'[r].out = Mem(r)]_vars

\* the second Running period in direct mode: the index found in the first period
\* is still stored, no resolution has run yet in this one (the start found no
\* player), and the first refresh has bound data to the new mapping
C22_Witness ==
    /\ thread = "alive" /\ updating /\ cpc = "idle" /\ ret = "done"
    /\ loop.pc = "freeze" /\ loop.data_freezed /\ loop.last_version_update = 0
    /\ ~override_player_index
    /\ player_scor_index \in Slots
    /\ ~player_scor.mIsPlayer
    /\ rgn["scor"].mode = 1
    /\ rgn["scor"].out = Live

(***************************************************************************)
(* sharedMemoryAPI.py, SimInfoAPI: the check of the mapped version string. *)
(* A string is a sequence of characters; NUL is the zero byte.             *)
(***************************************************************************)
NUL == "NUL"
DigitChars == {"0", "3", "6"}
DigitValue(c) == IF c = "3" THEN 3 ELSE IF c = "6" THEN 6 ELSE 0

\* bytes.partition(b'\0')[0]: the bytes before the first zero byte
RECURSIVE BeforeNul(_)
BeforeNul(bytes) ==
    IF bytes = <<>> \/ Head(bytes) = NUL THEN <<>>
    ELSE <<Head(bytes)>> \o BeforeNul(Tail(bytes))

\* str.rstrip() and str.lstrip(): the blanks at one end are dropped
RECURSIVE RStrip(_)
RStrip(str) ==
    IF str # <<>> /\ str[Len(str)] = " " THEN RStrip(SubSeq(str, 1, Len(str) - 1))
    ELSE str

RECURSIVE LStrip(_)
LStrip(str) == IF str # <<>> /\ Head(str) = " " THEN LStrip(Tail(str)) ELSE str

\* Cbytestring2Python on bytes that decode as they are
Cbytestring2Python(bytes) == RStrip(BeforeNul(bytes))

\* str.split('.'): cur is the part being read
RECURSIVE SplitDot(_, _)
SplitDot(str, cur) ==
    IF str = <<>> THEN <<cur>>
    ELSE IF Head(str) = "." THEN <<cur>> \o SplitDot(Tail(str), <<>>)
    ELSE SplitDot(Tail(str), Append(cur, Head(str)))

\* int(part) raises ValueError: blanks around the digits are accepted, an empty
\* string and any other character are not
IntFails(part) ==
    LET p == RStrip(LStrip(part))
    IN  p = <<>> \/ \E i \in 1 .. Len(p) : p[i] \notin DigitChars

\* int(part) of a string of digits
RECURSIVE IntDigits(_, _)
IntDigits(p, acc) ==
    IF p = <<>> THEN acc ELSE IntDigits(Tail(p), 10 * acc + DigitValue(Head(p)))

IntOf(part) == IntDigits(RStrip(LStrip(part)), 0)

\* SimInfoAPI.minimumSupportedVersionParts
minimumSupportedVersionParts == <<(<<"3">>), (<<"6">>), (<<"0">>), (<<"0">>)>>

\* the sum built by the loop over range(3, -1, -1), partFactor *= 100
RECURSIVE VersionSum(_, _, _)
VersionSum(parts, i, partFactor) ==
    IF i < 1 THEN 0
    ELSE IntOf(parts[i]) * partFactor + VersionSum(parts, i - 1, partFactor * 100)

\* SimInfoAPI.versionCheck: the value it leaves in sharedMemoryVerified
VersionCheck(mVersion, is64bit) ==
    LET versionStr   == Cbytestring2Python(mVersion)
        versionParts == SplitDot(versionStr, <<>>)
    IN  IF versionStr = <<>> THEN FALSE
        ELSE IF Len(versionParts) # 4 THEN FALSE
        ELSE IF \E i \in 1 .. 4 : IntFails(versionParts[i]) THEN FALSE
        ELSE IF VersionSum(versionParts, 4, 1)
                    < VersionSum(minimumSupportedVersionParts, 4, 1) THEN FALSE
        ELSE is64bit # 0

\* SimInfoAPI.isSharedMemoryAvailable
IsSharedMemoryAvailable ==
    /\ api.ret = "none"
    /\ LET verified == VersionCheck(api.mVersion, api.is64bit)
       IN  api' = [api EXCEPT !.sharedMemoryVerified = verified,
                              !.ret = IF verified THEN "True" ELSE "False"]
    /\ UNCHANGED <<scorMem, teleMem, rf2Vars, scan, sisVars>>

\* the version strings written to Rf2Ext.mVersion: up to MaxParts parts joined
\* by dots, followed by nothing, by a blank, or by a zero byte and a stale byte
PartSet == {<<>>, <<"0">>, <<"3">>, <<"6">>, <<"x">>, <<"6", "0", "0">>}
Tails == {<<>>, <<" ">>, <<NUL, "6">>}

RECURSIVE JoinDot(_)
JoinDot(parts) ==
    IF Len(parts) = 1 THEN parts[1]
    ELSE parts[1] \o <<".">> \o JoinDot(Tail(parts))

VersionBytes ==
    {b \in {JoinDot(ps) \o t : ps \in UNION {[1 .. n -> PartSet] : n \in 1 .. MaxParts},
                               t \in Tails} : Len(b) <= MaxVersionLen}

InitApi ==
    /\ scorMem = ZeroScor
    /\ teleMem = ZeroTele
    /\ InitEngine
    /\ InitSimInfoSync
    /\ scan = NoScan
    /\ api \in [mVersion : VersionBytes, is64bit : 0 .. 1,
                sharedMemoryVerified : BOOLEAN, ret : {"none"}]

NextApi == IsSharedMemoryAvailable

SpecApi == InitApi /\ [][NextApi]_vars

\* the string has four parts, each of digits only
FourIntegerParts(str) ==
    LET parts == SplitDot(str, <<>>)
    IN  /\ Len(parts) = 4
        /\ \A i \in 1 .. 4 :
              parts[i] # <<>> /\ \A k \in 1 .. Len(parts[i]) : parts[i][k] \in DigitChars

\* version a is lower than version b, part by part from the left
RECURSIVE LowerVersion(_, _, _)
LowerVersion(a, b, i) ==
    IF i > 4 THEN FALSE
    ELSE IF IntOf(a[i]) # IntOf(b[i]) THEN IntOf(a[i]) < IntOf(b[i])
    ELSE LowerVersion(a, b, i + 1)

\* what the version string and the 64-bit flag call for
Supported ==
    LET str == Cbytestring2Python(api.mVersion)
    IN  /\ FourIntegerParts(str)
        /\ ~LowerVersion(SplitDot(str, <<>>), minimumSupportedVersionParts, 1)
        /\ api.is64bit # 0

(***************************************************************************)
(* C23: isSharedMemoryAvailable() returns True exactly when the mapped     *)
(* version string, cut at the zero byte and stripped of trailing blanks,   *)
(* has four dot-separated integer parts, is not lower than 3.6.0.0, and    *)
(* is64bit is not 0.                                                       *)
(***************************************************************************)
C23_AvailableIffSupported ==
    api.ret # "none" => ((api.ret = "True") <=> Supported)

\* the answer for the versions whose parts are all below 100
ThreeDigits ==
    \E i \in 1 .. Len(api.mVersion) :
        /\ i + 2 <= Len(api.mVersion)
        /\ \A k \in i .. i + 2 : api.mVersion[k] \in DigitChars

SupportedBelowHundred ==
    (api.ret # "none" /\ ~ThreeDigits) => ((api.ret = "True") <=> Supported)

(***************************************************************************)
(* Two caller threads of one RF2SM.  The interpreter may switch threads    *)
(* between the test of _updating and its assignment, so the two statements *)
(* of SyncData.start are separate steps here.  An update thread that       *)
(* _update_thread no longer refers to is not followed.                     *)
(***************************************************************************)
\* SyncData.start: if self._updating
StartTest ==
    /\ cpc = "start"
    /\ IF updating
       THEN cpc' = "idle" /\ ret' = "warned"
       ELSE cpc' = "start_set" /\ UNCHANGED ret
    /\ UNCHANGED <<scorMem, teleMem, rgn, engineVars, loop, age, access_mode, prev>>
    /\ UNCHANGED <<scan, api, parked, sisVars>>

\* SyncData.start: self._updating = True
StartSet ==
    /\ cpc = "start_set"
    /\ updating' = TRUE
    /\ cpc' = "start_open"
    /\ UNCHANGED <<scorMem, teleMem, rgn, event, thread, tele_idx_dict, paused,
                   override_player_index, player_scor_index, player_scor, player_tele,
                   loop, age, access_mode, ret, prev>>
    /\ UNCHANGED <<scan, api, parked, sisVars>>

\* the scheduler runs the other caller thread
Switch ==
    /\ <<cpc, ret>> # <<parked.pc, parked.ret>>
    /\ cpc' = parked.pc
    /\ ret' = parked.ret
    /\ parked' = [pc |-> cpc, ret |-> ret]
    /\ UNCHANGED <<scorMem, teleMem, rgn, engineVars, loop, age, access_mode, prev>>
    /\ UNCHANGED <<scan, api, sisVars>>

\* each caller calls start() once
StartEach == ret = "none" /\ CallStart

NextRace ==
    \/ StartEach \/ StartTest \/ StartSet \/ StartOpen("no") \/ StartSync \/ StartSpawn
    \/ Switch
    \/ Updater \/ Tick
    \/ \E veh \in LoopFrames : PublishScor(veh)

SpecRace == Init /\ [][NextRace]_vars

\* create_mmap has opened the regions
OpenStep == cpc = "start_open" /\ cpc' = "start_sync"

(***************************************************************************)
(* C24: one background task per engine: whatever the interleaving of the   *)
(* start() calls of two caller threads on a Stopped engine, a loop thread  *)
(* is never started while one is alive, and the regions are never opened   *)
(* while they are open.                                                    *)
(***************************************************************************)
C24_OneLoopPerEngine ==
    [][/\ SpawnStep => thread # "alive"
       /\ OpenStep => \A r \in Regions : rgn[r].inst # "open"]_vars

\* both callers have returned from start() and both have started a thread
BothStarted == cpc = "idle" /\ ret = "done" /\ parked.pc = "idle" /\ parked.ret = "done"

(***************************************************************************)
(* C25: an iteration executed in the frozen state refreshes the regions    *)
(* and makes no resolution: in either loop, no step of such an iteration   *)
(* changes the player index, the player copies or the miss counter.        *)
(***************************************************************************)
\* a step of SyncData's loop, of SimInfoSync's loop, made while frozen
FrozenStep == loop.data_freezed /\ loop.pc \in {"wait", "refresh", "freeze"}
                /\ loop'.pc # loop.pc
SisFrozenStep == sis_loop.data_freezed /\ sis_loop.pc \in {"test", "refresh", "sync", "check"}
                   /\ sis_loop'.pc # sis_loop.pc

C25_FrozenIterationKeepsPlayer ==
    [][/\ FrozenStep
            => /\ UNCHANGED <<player_scor, player_tele, player_scor_index>>
               /\ loop'.reset_counter = loop.reset_counter
               /\ loop'.pc # "sync"
               /\ loop.pc = "refresh" => rgn'["scor"].out = scorMem
       /\ SisFrozenStep
            => /\ sis'.player_scor = sis.player_scor
               /\ sis'.player_tele = sis.player_tele
               /\ sis'.scor_index = sis.scor_index
               /\ sis'.tele_index = sis.tele_index
               /\ sis_loop'.reset_counter = sis_loop.reset_counter
               /\ sis_loop.pc = "refresh" => sis_rgn'["scor"].out = scorMem]_vars

\* a frozen iteration has refreshed a frame that flags the local player at a
\* slot other than the stored index, and goes on without resolving it
C25_Witness ==
    /\ loop.pc = "freeze" /\ loop.data_freezed
    /\ rgn["scor"].out = scorMem
    /\ scorMem.e > 0
    /\ LocalScorIndex(Data("scor")) \in Slots
    /\ player_scor_index # LocalScorIndex(Data("scor"))

\* the same in SimInfoSync's loop, after the version check of a frozen iteration
SisFrozenKeepsPlayer ==
    /\ sis_loop.pc = "sleep" /\ sis_loop.data_freezed
    /\ sis_rgn["scor"].out = scorMem
    /\ LocalScorIndex(SisData("scor")) \in Slots
    /\ sis.scor_index # LocalScorIndex(SisData("scor"))

(***************************************************************************)
(* One iteration of SyncData.__update region by region: update_mmap()      *)
(* updates scoring, telemetry, extended and force feedback one after the   *)
(* other, and the simulator may publish a frame between any two of them.   *)
(***************************************************************************)
\* the position of the loop before the update of region r, and after it
RefreshAt(r) ==
    IF r = "scor" THEN "refresh" ELSE IF r = "tele" THEN "refresh_tele"
    ELSE IF r = "ext" THEN "refresh_ext" ELSE "refresh_ffb"

AfterRefresh(r) ==
    IF r = "scor" THEN "refresh_tele" ELSE IF r = "tele" THEN "refresh_ext"
    ELSE IF r = "ext" THEN "refresh_ffb"
    ELSE IF loop.data_freezed THEN "freeze" ELSE "sync"

\* MMapDataSet.update_mmap: the update of region r; after the last one,
\* __update_tele_index_dict
LoopRefreshRegion(r) ==
    /\ loop.pc = RefreshAt(r)
    /\ LET s == RegionUpdate([g |-> rgn, err |-> "none"], r)
       IN  /\ rgn' = s.g
           /\ IF s.err = "none"
              THEN /\ tele_idx_dict' =
                        IF r = "ffb"
                        THEN UpdateTeleIndexDict(tele_idx_dict,
                                IF s.g["tele"].out = Live THEN teleMem
                                ELSE s.g["tele"].out)
                        ELSE tele_idx_dict
                   /\ loop' = [loop EXCEPT !.pc = AfterRefresh(r)]
                   /\ UNCHANGED thread
              ELSE /\ loop' = [loop EXCEPT !.pc = "crashed"]
                   /\ thread' = "dead"
                   /\ UNCHANGED tele_idx_dict
    /\ UNCHANGED <<scorMem, teleMem, updating, event, paused, override_player_index,
                   player_scor_index, player_scor, player_tele, age, access_mode, cpc, ret, prev>>
    /\ UNCHANGED <<scan, api, parked, sisVars>>

\* frames that flag vehicle 1 as the player, at slot 0 or at the last slot
OrderFrames == {SyncScorFrame(0, 1), SyncScorFrame(1, 1)}

\* the simulator publishes a scoring frame in the middle of an iteration
PublishBetween(veh) ==
    /\ loop.pc \in {"refresh_tele", "refresh_ext", "refresh_ffb", "sync"}
    /\ scorMem.b = scorMem.e
    /\ scorMem.b < MaxVersion
    /\ scorMem' = [b |-> scorMem.b + 1, e |-> scorMem.b + 1, veh |-> veh]
    /\ UNCHANGED <<teleMem, rf2Vars, scan, api, sisVars>>

NextOrder ==
    \/ StartOnce \/ StartCheck \/ StartOpen("no") \/ StartSync \/ StartSpawn
    \/ LoopInit \/ LoopWait \/ LoopSync \/ LoopFreeze \/ Tick
    \/ \E r \in Regions : LoopRefreshRegion(r)
    \/ \E veh \in OrderFrames : PublishScor(veh)
    \/ \E veh \in OrderFrames : PublishBetween(veh)

SpecOrder == Init /\ [][NextOrder]_vars

(***************************************************************************)
(* C26: in every iteration scoring is refreshed first, then telemetry,     *)
(* then extended, then force feedback, then comes the resolution; in copy  *)
(* mode nothing replaces the scoring snapshot between its refresh and the  *)
(* resolution, nor the telemetry snapshot between its refresh and the      *)
(* resolution, and the resolution reads that scoring snapshot, not the     *)
(* newer content of the mapping.                                           *)
(***************************************************************************)
C26_RefreshOrderThenResolve ==
    [][/\ \A r \in Regions :
            (loop.pc = RefreshAt(r) /\ loop'.pc # loop.pc)
                => /\ loop'.pc = AfterRefresh(r)
                   /\ \A q \in Regions \ {r} : rgn'[q] = rgn[q]
       /\ loop.pc \in {"refresh_tele", "refresh_ext", "refresh_ffb", "sync"}
            => rgn'["scor"] = rgn["scor"]
       /\ loop.pc \in {"refresh_ext", "refresh_ffb", "sync"}
            => rgn'["tele"] = rgn["tele"]
       /\ loop'.pc = "sync" => loop.pc \in {"sync", "refresh_ffb"}
       /\ (SyncStep /\ LocalScorIndex(rgn["scor"].out) \in Slots)
            => /\ player_scor_index' = LocalScorIndex(rgn["scor"].out)
               /\ player_scor' = rgn["scor"].out.veh[player_scor_index']]_vars

\* a resolution has taken the player from the iteration's scoring snapshot while
\* the mapping already holds a newer frame with the player at another slot
C26_Witness ==
    /\ loop.pc = "freeze" /\ ~loop.data_freezed
    /\ rgn["scor"].mode = 0
    /\ rgn["scor"].out.e < scorMem.e
    /\ player_scor_index = LocalScorIndex(rgn["scor"].out)
    /\ player_scor_index \in Slots
    /\ LocalScorIndex(scorMem) \in Slots
    /\ LocalScorIndex(scorMem) # player_scor_index
    /\ player_scor = rgn["scor"].out.veh[player_scor_index]

\* with a caller that starts and stops the engine: between the refresh and the
\* resolution of an iteration no call replaces a snapshot
SnapshotsKeptUntilResolved == [][loop.pc = "sync" => rgn' = rgn]_vars

(***************************************************************************)
(* SyncData.__sync_player_data statement by statement: the index, the      *)
(* scoring copy and the telemetry copy are three assignments, and a reader *)
(* thread (RF2SM.playerIndex, rf2ScorVeh(None), rf2TeleVeh(None)) may run  *)
(* between any two of them.  Every state is an instant at which a reader   *)
(* may look at the three fields.                                           *)
(***************************************************************************)
\* __local_scor_index and self.player_scor_index = scor_idx; a miss returns
\* False and is counted
LoopSyncIndex ==
    /\ loop.pc = "sync"
    /\ LET scor_idx == LocalScorIndex(Data("scor"))
           missed   == ~override_player_index /\ scor_idx = INVALID_INDEX
           c        == NextCounter(loop.reset_counter, FALSE)
       IN  IF missed
           THEN /\ paused' = IF c = PauseTries THEN TRUE ELSE paused
                /\ loop' = [loop EXCEPT !.reset_counter = c, !.pc = "freeze"]
                /\ UNCHANGED player_scor_index
           ELSE /\ player_scor_index' =
                        IF override_player_index THEN player_scor_index ELSE scor_idx
                /\ loop' = [loop EXCEPT !.pc = "sync_scor"]
                /\ UNCHANGED paused
    /\ prev' = PlayerBefore
    /\ UNCHANGED <<scorMem, teleMem, rgn, updating, event, thread, tele_idx_dict,
                   override_player_index, player_scor, player_tele, age, access_mode,
                   cpc, ret>>
    /\ UNCHANGED <<scan, api, parked, sisVars>>

\* self.copy_player_scor(self.player_scor_index)
LoopSyncScor ==
    /\ loop.pc = "sync_scor"
    /\ player_scor' = CopyPlayerScor(Data("scor"), player_scor_index)
    /\ loop' = [loop EXCEPT !.pc = "sync_tele"]
    /\ UNCHANGED <<scorMem, teleMem, rgn, updating, event, thread, tele_idx_dict, paused,
                   override_player_index, player_scor_index, player_tele, age,
                   access_mode, cpc, ret, prev>>
    /\ UNCHANGED <<scan, api, parked, sisVars>>

\* self.copy_player_tele(self.sync_tele_index(self.player_scor_index)), return
\* True, and the counter and the pause of a synced iteration
LoopSyncTele ==
    /\ loop.pc = "sync_tele"
    /\ player_tele' = CopyPlayerTele(Data("tele"),
                          SyncTeleIndex(tele_idx_dict, Data("scor"), player_scor_index))
    /\ LET c == NextCounter(loop.reset_counter, TRUE)
       IN  /\ paused' = (c = PauseTries)
           /\ loop' = [loop EXCEPT !.reset_counter = c, !.pc = "freeze"]
    /\ UNCHANGED <<scorMem, teleMem, rgn, updating, event, thread, tele_idx_dict,
                   override_player_index, player_scor_index, player_scor, age,
                   access_mode, cpc, ret, prev>>
    /\ UNCHANGED <<scan, api, parked, sisVars>>

\* scoring frames with vehicle 1 (slot 0) or vehicle 2 (slot 1) as the player
ReaderFrames == {SyncScorFrame(0, 1), SyncScorFrame(0, 2)}

\* telemetry holds every vehicle at its scoring slot before the engine starts
InitReader ==
    /\ scorMem = ZeroScor
    /\ teleMem = [b |-> 1, e |-> 1, num |-> MAX_VEHICLES,
                  veh |-> SyncTeleFrame(0, MAX_VEHICLES)]
    /\ InitEngine
    /\ InitSimInfoSync
    /\ scan = NoScan
    /\ api = NoApi

NextReader ==
    \/ StartOnce \/ StartCheck \/ StartOpen("no") \/ StartSync \/ StartSpawn
    \/ LoopInit \/ LoopWait \/ LoopRefresh \/ LoopFreeze \/ Tick
    \/ LoopSyncIndex \/ LoopSyncScor \/ LoopSyncTele
    \/ \E veh \in ReaderFrames : PublishScor(veh)

SpecReader == InitReader /\ [][NextReader]_vars

\* the same with the resolution as one step
NextReaderAtomic ==
    \/ StartOnce \/ StartCheck \/ StartOpen("no") \/ StartSync \/ StartSpawn
    \/ Updater \/ Tick
    \/ \E veh \in ReaderFrames : PublishScor(veh)

SpecReaderAtomic == InitReader /\ [][NextReaderAtomic]_vars

\* the three fields are the outcome of one resolution of the scoring frame veh
OneResolution(veh) ==
    /\ player_scor_index = ScanLocalScor(veh, 0)
    /\ player_scor = veh[player_scor_index]
    /\ player_tele.mID = player_scor.mID

(***************************************************************************)
(* C27: whenever a reader looks at player_scor_index, player_scor and      *)
(* player_tele of a running engine that has resolved the player, the three *)
(* come from one resolution: they are never a mix of the fields of two.    *)
(***************************************************************************)
C27_ReaderSeesOneResolution ==
    (thread = "alive" /\ player_scor_index \in Slots)
        => \E veh \in ReaderFrames : OneResolution(veh)

(***************************************************************************)
(* C28: when mmap.close() of a region raises BufferError because its       *)
(* buffer is still held elsewhere, close() catches it: stop() returns      *)
(* normally, every region has sharing switched off and keeps the final     *)
(* copy of its content, and the regions after the failing one are closed.  *)
(***************************************************************************)
CloseStep == cpc = "stop_close" /\ cpc' = "idle"

C28_BufferErrorSwallowed ==
    [][(CloseStep /\ \A r \in Regions : rgn[r].inst = "open")
         => /\ ret' = "done"
            /\ \A r \in Regions :
                  /\ ~rgn'[r].sharing
                  /\ rgn'[r].out = Mem(r)
                  /\ rgn'[r].inst = "open" => (rgn[r].sharing /\ r \in UNION HeldSets)
                  /\ r \notin UNION HeldSets => rgn'[r].inst = "closed"]_vars

\* stop() has returned normally although the extended region could not be
\* released; the force-feedback region after it is closed
C28_Witness ==
    /\ cpc = "idle" /\ ret = "done" /\ ~updating /\ thread = "dead"
    /\ rgn["ext"].inst = "open"
    /\ ~rgn["ext"].sharing
    /\ rgn["ext"].out = ExtMem
    /\ rgn["ffb"].inst = "closed"
    /\ rgn["scor"].inst = "closed"

(***************************************************************************)
(* Active vehicle counts: the mapped scoring and telemetry arrays are      *)
(* drawn with a count mNumVehicles ("num") of active slots; the slots      *)
(* beyond the count hold whatever an earlier session left there.  The      *)
(* engine is started once and the simulator republishes the scoring frame. *)
(***************************************************************************)
Counts == 0 .. MAX_VEHICLES

InitActive ==
    /\ scorMem \in [b : {0}, e : {0}, num : Counts, veh : ScorVehicles]
    /\ \E r \in Slots, n \in Counts :
          teleMem = [b |-> 0, e |-> 0, num |-> n, veh |-> SyncTeleFrame(r, n)]
    /\ InitEngine
    /\ InitSimInfoSync
    /\ scan = NoScan
    /\ api = NoApi

\* the simulator writes the same scoring frame again under the next version
Republish ==
    /\ AboutToRead
    /\ scorMem.b = scorMem.e
    /\ scorMem.b < MaxVersion
    /\ scorMem' = [scorMem EXCEPT !.b = @ + 1, !.e = @ + 1]
    /\ UNCHANGED <<teleMem, rf2Vars, scan, api, sisVars>>

NextActive ==
    \/ StartOnce \/ StartCheck \/ StartOpen("no") \/ StartSync \/ StartSpawn
    \/ Updater \/ Tick
    \/ Republish

SpecActive == InitActive /\ [][NextActive]_vars

\* a resolution: the one of start(), or one of the loop
ResolveStep == SyncStep \/ (cpc = "start_sync" /\ cpc' = "start_spawn")

(***************************************************************************)
(* C29: the scoring index a resolution selects as the local player, and    *)
(* the telemetry index it matches by mID, are lower than the active        *)
(* vehicle count of the snapshot they index.                               *)
(***************************************************************************)
C29_ResolvedWithinActiveCount ==
    [][LET scor == Data("scor")
           tele == Data("tele")
           j    == LocalScorIndex(scor)
       IN  (ResolveStep /\ j # INVALID_INDEX)
           => /\ j < scor.num
              /\ LET t == SyncTeleIndex(tele_idx_dict', scor, j)
                 IN  t # INVALID_INDEX => t < tele.num]_vars

\* the scan alone: an index it returns is an active slot
ScanWithinActiveCount ==
    (cpc = "start_sync" /\ LocalScorIndex(Data("scor")) # INVALID_INDEX)
        => LocalScorIndex(Data("scor")) < Data("scor").num

\* the scan of SimInfoSync on the same scoring array
SisScanWithinActiveCount ==
    LET j == FindLocalScorIndex(scorMem.veh, INVALID_INDEX)
    IN  j # INVALID_INDEX => j < scorMem.num

(***************************************************************************)
(* C30: paused reflects freeze: in every state of the running loop of      *)
(* SyncData in which the data is frozen, the initial frozen state of a     *)
(* loop that has just started included, paused is true.                    *)
(***************************************************************************)
Running == thread = "alive" /\ loop.pc \in {"wait", "refresh", "sync", "freeze"}

C30_FrozenIsPaused == (Running /\ loop.data_freezed) => paused

\* the same for the freezes that follow a period of activity
FrozenAgainIsPaused ==
    (Running /\ loop.data_freezed /\ loop.freezed_version # 0) => paused

\* a loop frozen again after a period of activity
FrozenAgain == Running /\ loop.data_freezed /\ loop.freezed_version # 0

(***************************************************************************)
(* C31: the poll delay has two values tied to the freeze state: whenever   *)
(* either loop is at its end-of-iteration wait, the delay is the idle one  *)
(* (0.5 s) if the data is frozen and the active one (0.01 s) if it is not. *)
(***************************************************************************)
DelayFor(data_freezed) == IF data_freezed THEN IdleDelay ELSE ActiveDelay

C31_DelayFollowsFreeze ==
    /\ (thread = "alive" /\ loop.pc = "wait")
          => loop.update_delay = DelayFor(loop.data_freezed)
    /\ (sis_thread = "alive" /\ sis_loop.pc = "sleep")
          => sis_loop.update_delay = DelayFor(sis_loop.data_freezed)

\* the loop waits, frozen again after a period of activity, with the idle delay
C31_Witness ==
    /\ thread = "alive" /\ loop.pc = "wait"
    /\ loop.data_freezed /\ loop.freezed_version # 0
    /\ loop.update_delay = IdleDelay

\* SimInfoSync's loop sleeps with the active delay
SisActiveSleep ==
    /\ sis_thread = "alive" /\ sis_loop.pc = "sleep"
    /\ ~sis_loop.data_freezed /\ sis_loop.update_delay = ActiveDelay

(***************************************************************************)
(* Starting and stopping one engine while the simulator publishes frames.  *)
(* The update thread is scheduled fairly, and a caller inside stop() goes  *)
(* on whenever its next statement can run.                                 *)
(***************************************************************************)
Stopper == StopCheck \/ StopFlag \/ StopJoin \/ StopClose({})

NextStop ==
    \/ CallStart \/ StartCheck \/ StartOpen("no") \/ StartSync \/ StartSpawn
    \/ CallStop \/ Stopper
    \/ Updater \/ Tick
    \/ \E veh \in LoopFrames : PublishScor(veh)

SpecStop == Init /\ [][NextStop]_vars /\ WF_vars(Updater) /\ WF_vars(Stopper)

\* stop() has been called on a Running engine
StopOnRunning == cpc = "stop" /\ updating /\ thread = "alive"

(***************************************************************************)
(* C32: a stop() called on a Running engine eventually returns, whatever   *)
(* the loop is doing (active, frozen, in an iteration or waiting): the     *)
(* loop sees the stop signal at its next wait and exits, the join returns  *)
(* and the regions are closed.                                             *)
(***************************************************************************)
C32_StopReturns == StopOnRunning ~> (cpc = "idle" /\ ret = "done" /\ thread = "dead")

\* stop() has returned from an engine whose loop was active when it was stopped
C32_Witness ==
    /\ cpc = "idle" /\ ret = "done" /\ ~updating
    /\ thread = "dead" /\ loop.pc = "done" /\ ~loop.data_freezed

\* the same from a frozen loop
StoppedWhileFrozen ==
    /\ cpc = "idle" /\ ret = "done" /\ ~updating
    /\ thread = "dead" /\ loop.pc = "done" /\ loop.data_freezed

\* stop() is called while the loop is inside an iteration, and while it waits
StopMidIteration == StopOnRunning /\ loop.pc \in {"refresh", "sync", "freeze"}
StopWhileWaiting == StopOnRunning /\ loop.pc = "wait"

(***************************************************************************)
(* sharedMemoryAPI.py, SimInfoAPI: the player lookup and the update loop   *)
(* that keeps LastScor and LastTele.  Rf2Scor and Rf2Tele are the mapped   *)
(* regions scorMem and teleMem.  The loops over range(127) leave out the   *)
(* last of the 128 slots: range(MAX_VEHICLES - 1) here.                    *)
(***************************************************************************)
ScanLimit == MAX_VEHICLES - 1

\* for _player in range(127): if mVehicles[_player].mIsPlayer == 1: break
\* the value of _player and whether the loop ended by the break, from slot i
RECURSIVE PlayerScan(_, _)
PlayerScan(veh, i) ==
    IF veh[i].mIsPlayer THEN [player |-> i, found |-> TRUE]
    ELSE IF i + 1 >= ScanLimit THEN [player |-> i, found |-> FALSE]
    ELSE PlayerScan(veh, i + 1)

\* a lookup that reads all the slots
RECURSIVE PlayerScanAll(_, _)
PlayerScanAll(veh, i) ==
    IF veh[i].mIsPlayer THEN [player |-> i, found |-> TRUE]
    ELSE IF i + 1 >= MAX_VEHICLES THEN [player |-> i, found |-> FALSE]
    ELSE PlayerScanAll(veh, i + 1)

\* SimInfoAPI.__playersDriverNum
PlayersDriverNum(scor) == PlayerScan(scor.veh, 0).player

\* SimInfoAPI.__playerVerified: the value returned and players_index after it
PlayerVerified(input_data, players_index) ==
    LET s == PlayerScan(input_data.veh, 0)
    IN  [found |-> s.found,
         players_index |-> IF s.found THEN s.player ELSE players_index]

\* SimInfoAPI.dataVerified
DataVerified(input_data) == input_data.e = input_data.b

\* SimInfoAPI.__init__: players_index = 99
InitialPlayersIndex == 99

\* a SimInfoAPI whose update thread has not been started; LastScor and LastTele
\* hold the default data
NewApi ==
    [mVersion |-> <<>>, is64bit |-> 0, sharedMemoryVerified |-> FALSE, ret |-> "none",
     players_index |-> InitialPlayersIndex, data_updating |-> FALSE,
     LastScor |-> ZeroScor, LastTele |-> ZeroTele, pc |-> "none",
     players_mid |-> 0, last_version_update |-> 0, re_version_update |-> 0,
     mmap_restarted |-> TRUE, check_counter |-> 0, restore_counter |-> 0,
     called |-> "none", driver |-> 0, found |-> FALSE]

\* SimInfoAPI.startUpdating; __infoUpdate: the statements before the loop
StartUpdating ==
    /\ api.pc = "none"
    /\ api' = [api EXCEPT !.data_updating = TRUE, !.pc = "loop",
                          !.players_mid = 0, !.last_version_update = 0,
                          !.re_version_update = 0, !.mmap_restarted = TRUE,
                          !.check_counter = 0, !.restore_counter = 0]
    /\ UNCHANGED <<scorMem, teleMem, rf2Vars, scan, sisVars>>

\* SimInfoAPI.stopUpdating
StopUpdating ==
    /\ api.pc = "loop"
    /\ api.data_updating
    /\ api' = [api EXCEPT !.data_updating = FALSE]
    /\ UNCHANGED <<scorMem, teleMem, rf2Vars, scan, sisVars>>

\* the scoring and telemetry kept by one iteration of __infoUpdate
Accept(a, data_scor, data_tele) ==
    IF ~DataVerified(data_scor) THEN a
    ELSE LET v == PlayerVerified(data_scor, a.players_index) IN
         IF ~v.found THEN a
         ELSE LET mid == data_scor.veh[v.players_index].mID
                  a1  == [a EXCEPT !.players_index = v.players_index,
                                   !.LastScor = data_scor,
                                   !.players_mid = mid]
              IN  IF DataVerified(data_tele) /\ data_tele.veh[v.players_index].mID = mid
                  THEN [a1 EXCEPT !.LastTele = data_tele]
                  ELSE a1

\* the check of the data version every CheckTicks + 1 iterations: reset_mmap()
\* opens the mappings again
DataVersionCheck(a) ==
    LET c == a.check_counter + 1 IN
    IF c > CheckTicks
    THEN LET restart == /\ ~a.mmap_restarted
                        /\ a.last_version_update > 0
                        /\ a.last_version_update = a.LastScor.e
         IN  [a EXCEPT !.mmap_restarted = @ \/ restart,
                       !.re_version_update = IF restart THEN a.LastScor.e ELSE @,
                       !.last_version_update = a.LastScor.e,
                       !.check_counter = 0]
    ELSE [a EXCEPT !.check_counter = c]

\* the count of the iterations since the restart, and set_default_mmap() at
\* CheckTicks, which puts the default data back into LastScor and LastTele
Restore(a) ==
    LET r == IF ~a.mmap_restarted THEN a.restore_counter
             ELSE IF a.re_version_update # a.LastScor.e THEN 0
             ELSE IF a.restore_counter < CheckTicks + 1 THEN a.restore_counter + 1
             ELSE a.restore_counter
        a1 == [a EXCEPT !.mmap_restarted = @ /\ a.re_version_update = a.LastScor.e,
                        !.restore_counter = r]
    IN  IF r = CheckTicks
        THEN [a1 EXCEPT !.LastScor = ZeroScor, !.LastTele = ZeroTele]
        ELSE a1

\* __infoUpdate: one iteration of while self.data_updating, or the end of the loop
InfoUpdate ==
    /\ api.pc = "loop"
    /\ IF api.data_updating
       THEN api' = Restore(DataVersionCheck(Accept(api, scorMem, teleMem)))
       ELSE api' = [api EXCEPT !.pc = "none"]
    /\ UNCHANGED <<scorMem, teleMem, rf2Vars, scan, sisVars>>

\* SimInfoAPI.syncedVehicleScoring and syncedVehicleTelemetry
SyncedVehicleScoring == api.LastScor.veh[api.players_index]
SyncedVehicleTelemetry == api.LastTele.veh[api.players_index]

\* the simulator writes a scoring frame, begins a telemetry frame and ends it
ApiScorFrames == {SyncScorFrame(r, p) : r \in 0 .. 1, p \in 1 .. 2}
ApiTeleFrames == {SyncTeleFrame(r, MAX_VEHICLES) : r \in 0 .. 1}

ApiPublishScor(veh) ==
    /\ scorMem.b < MaxVersion
    /\ scorMem' = [b |-> scorMem.b + 1, e |-> scorMem.b + 1, veh |-> veh]
    /\ UNCHANGED <<teleMem, rf2Vars, scan, api, sisVars>>

ApiTeleBegin ==
    /\ teleMem.b = teleMem.e
    /\ teleMem.b < MaxVersion
    /\ teleMem' = [teleMem EXCEPT !.b = @ + 1]
    /\ UNCHANGED <<scorMem, rf2Vars, scan, api, sisVars>>

ApiTeleEnd(veh) ==
    /\ teleMem.b # teleMem.e
    /\ teleMem' = [b |-> teleMem.b, e |-> teleMem.b, num |-> MAX_VEHICLES, veh |-> veh]
    /\ UNCHANGED <<scorMem, rf2Vars, scan, api, sisVars>>

InitInfo ==
    /\ scorMem = ZeroScor
    /\ teleMem = ZeroTele
    /\ InitEngine
    /\ InitSimInfoSync
    /\ scan = NoScan
    /\ api = NewApi

NextInfo ==
    \/ StartUpdating \/ StopUpdating \/ InfoUpdate
    \/ \E veh \in ApiScorFrames : ApiPublishScor(veh)
    \/ ApiTeleBegin
    \/ \E veh \in ApiTeleFrames : ApiTeleEnd(veh)

SpecInfo == InitInfo /\ [][NextInfo]_vars

\* the update loop has put a scoring and a telemetry snapshot into LastScor and
\* LastTele
Published == api.LastScor # ZeroScor /\ api.LastTele # ZeroTele

(***************************************************************************)
(* C33: once the update loop of SimInfoAPI has published a scoring and a   *)
(* telemetry snapshot, syncedVehicleScoring() and syncedVehicleTelemetry() *)
(* return slots with the same mID.                                         *)
(***************************************************************************)
C33_SyncedSlotsSameVehicle ==
    Published => SyncedVehicleScoring.mID = SyncedVehicleTelemetry.mID

(***************************************************************************)
(* The player lookup of SimInfoAPI called once on a scoring array.         *)
(***************************************************************************)
\* a call of __playersDriverNum (by playersVehicleScoring and the like)
LookupDriverNum ==
    /\ api.called = "none"
    /\ api' = [api EXCEPT !.called = "driver", !.driver = PlayersDriverNum(scorMem)]
    /\ UNCHANGED <<scorMem, teleMem, rf2Vars, scan, sisVars>>

\* a call of __playerVerified on the mapped scoring data
LookupVerified ==
    /\ api.called = "none"
    /\ LET v == PlayerVerified(scorMem, api.players_index)
       IN  api' = [api EXCEPT !.called = "verified", !.found = v.found,
                              !.players_index = v.players_index]
    /\ UNCHANGED <<scorMem, teleMem, rf2Vars, scan, sisVars>>

\* any scoring array; players_index as constructed or as left by a lookup
InitLookup ==
    /\ scorMem \in [b : {0}, e : {0}, veh : ScorVehicles]
    /\ teleMem = ZeroTele
    /\ InitEngine
    /\ InitSimInfoSync
    /\ scan = NoScan
    /\ \E i \in {InitialPlayersIndex} \cup (0 .. ScanLimit - 1) :
          api = [NewApi EXCEPT !.players_index = i]

NextLookup == LookupDriverNum \/ LookupVerified

SpecLookup == InitLookup /\ [][NextLookup]_vars

\* the first slot of the array with mIsPlayer set, if any
FirstPlayer == PlayerScanAll(scorMem.veh, 0)

(***************************************************************************)
(* C34: on a scoring array in which some slot has mIsPlayer set, the       *)
(* player lookup of SimInfoAPI (__playersDriverNum and __playerVerified)   *)
(* yields the index of the first such slot, wherever in the array it is;   *)
(* when no slot has the flag, __playerVerified reports not found and       *)
(* leaves players_index unchanged.                                         *)
(***************************************************************************)
C34_LookupFindsFirstPlayer ==
    [][/\ (api'.called = "driver" /\ FirstPlayer.found)
             => api'.driver = FirstPlayer.player
       /\ (api'.called = "verified" /\ FirstPlayer.found)
             => (api'.found /\ api'.players_index = FirstPlayer.player)
       /\ (api'.called = "verified" /\ ~FirstPlayer.found)
             => (~api'.found /\ api'.players_index = api.players_index)]_vars

\* the same for the arrays whose first player is not in the last slot
LookupFindsPlayerBeforeLast ==
    [][/\ (api'.called = "driver" /\ FirstPlayer.found
                /\ FirstPlayer.player < ScanLimit)
             => api'.driver = FirstPlayer.player
       /\ (api'.called = "verified" /\ FirstPlayer.found
                /\ FirstPlayer.player < ScanLimit)
             => (api'.found /\ api'.players_index = FirstPlayer.player)
       /\ (api'.called = "verified" /\ ~FirstPlayer.found)
             => (~api'.found /\ api'.players_index = api.players_index)]_vars

(***************************************************************************)
(* RF2SM.setPlayerIndex called with any integer, before the start and      *)
(* while the engine runs.                                                  *)
(***************************************************************************)
IndexInputs == (INVALID_INDEX - 2) .. (MAX_VEHICLES + 1)

NextIndex ==
    \/ StartOnce \/ StartCheck \/ StartOpen("no") \/ StartSync \/ StartSpawn
    \/ Updater
    \/ \E veh \in LoopFrames : PublishScor(veh)
    \/ \E state \in BOOLEAN : SetPlayerOverride(state)
    \/ \E index \in IndexInputs : SetPlayerIndex(index)

SpecIndex == Init /\ [][NextIndex]_vars

\* the index that setPlayerIndex(index) is to store
Clamped(index) ==
    IF index < INVALID_INDEX THEN INVALID_INDEX
    ELSE IF index > MAX_VEHICLES - 1 THEN MAX_VEHICLES - 1
    ELSE index

(***************************************************************************)
(* C35: after any sequence of setPlayerIndex(index) calls with any         *)
(* integers the stored player_scor_index lies in INVALID_INDEX ..          *)
(* MAX_VEHICLES - 1: a value below -1 is stored as -1, a value above       *)
(* MAX_VEHICLES - 1 as MAX_VEHICLES - 1, a value in the range unchanged.   *)
(***************************************************************************)
C35_StoredIndexClamped ==
    /\ [](player_scor_index \in INVALID_INDEX .. (MAX_VEHICLES - 1))
    /\ [][\A index \in IndexInputs :
             SetPlayerIndex(index) => player_scor_index' = Clamped(index)]_vars

\* setPlayerIndex has stored the highest index before the engine was started
C35_Witness == thread = "none" /\ cpc = "idle" /\ player_scor_index = MAX_VEHICLES - 1

====
